---- MODULE Spec2Model ----
(***************************************************************************)
(* ivy/container/linear_algebra.py: the linear-algebra methods of          *)
(* ivy.Container.  Every method of ContainerWithLinearAlgebra is a static  *)
(* or an instance wrapper whose body is one call: a static_<op> method     *)
(* calls ContainerBase.cont_multi_map_in_function, an instance <op> method *)
(* calls its static form.  The mapper itself (ivy/container/base.py) and   *)
(* the numeric backend are not part of this file; they are modelled from   *)
(* the specification's description of the mapping engine, with a stub      *)
(* backend.                                                                *)
(***************************************************************************)
EXTENDS Integers, Sequences, FiniteSets, TLC

VARIABLES
  call,           \* the call the user made: [form, op, pos, kw]
  status,         \* "idle" | "returned" | "raised"
  err,            \* the exception that reached the caller ("" if none)
  ret,            \* the reference the call returned ("" if none)
  heap0,          \* the objects (reference -> Container) when the call started
  heap,           \* the objects when the call ended
  mapper_calls,   \* the calls of cont_multi_map_in_function made, in order
  backend_calls,  \* the leaf invocations of the backend made, in order
  errpath,        \* the path a KeyMismatchError names (<<>> if none)
  threads         \* the mapper calls running concurrently, each with its
                  \* position in its traversal (<<>> when a single call runs)

vars == <<call, status, err, errpath, ret, heap0, heap, mapper_calls, backend_calls, threads>>

(***************************************************************************)
(* Bounds of the model.                                                    *)
(***************************************************************************)
\* a caller passes at most MaxGiven keyword arguments explicitly
MaxGiven == 2
\* the leaves of an input Container hold base*10 + i, base in 1..MaxBase
MaxBase == 2

(***************************************************************************)
(* Values.  A value is a leaf (an array handle, here a number), a matrix   *)
(* (an array whose entries the model keeps), a number (a 0-dimensional     *)
(* array), a sequence of values (a Python list or tuple), a Container (an  *)
(* ordered mapping: a sequence of [key, val] entries with unique keys),    *)
(* Missing (the result of looking up an absent key) or Failure (what a     *)
(* backend operation that raises yields).                                  *)
(***************************************************************************)
LeafV(n) == [kind |-> "leaf", leaf |-> n, sub |-> <<>>]
MatV(m) == [kind |-> "mat", leaf |-> m, sub |-> <<>>]
NumV(n) == [kind |-> "num", leaf |-> n, sub |-> <<>>]
SeqV(s) == [kind |-> "seq", leaf |-> 0, sub |-> s]
ContV(c) == [kind |-> "cont", leaf |-> 0, sub |-> c]
Missing == [kind |-> "missing", leaf |-> 0, sub |-> <<>>]
Failure == [kind |-> "error", leaf |-> 0, sub |-> <<>>]
\* the tuple of arrays a multi-output operation returns for one leaf
TupleV(t) == [kind |-> "tuple", leaf |-> 0, sub |-> t]
Entry(k, v) == [key |-> k, val |-> v]

HasKey(c, k) == \E i \in 1..Len(c) : c[i].key = k
IndexOf(c, k) == CHOOSE i \in 1..Len(c) : c[i].key = k
Keys(c) == [i \in 1..Len(c) |-> c[i].key]

\* the value a positional argument contributes one level down, at key k
Get(v, k) ==
  IF v.kind = "cont"
    THEN IF HasKey(v.sub, k) THEN v.sub[IndexOf(v.sub, k)].val ELSE Missing
    ELSE v

\* the value an argument contributes to element j of a sequence
Elem(v, j) ==
  IF v.kind = "seq"
    THEN IF j <= Len(v.sub) THEN v.sub[j] ELSE Missing
    ELSE v

\* the key-chain segment that names element j of a sequence
IndexKey(j) == <<"0", "1", "2", "3">>[j]

RECURSIVE LeafPathSeq(_, _, _)
\* the paths of the leaves of Container c below prefix, depth first, from entry i
LeafPathSeq(c, prefix, i) ==
  IF i > Len(c) THEN <<>>
  ELSE LET e == c[i]
           p == Append(prefix, e.key)
       IN (IF e.val.kind = "cont" THEN LeafPathSeq(e.val.sub, p, 1) ELSE <<p>>)
          \o LeafPathSeq(c, prefix, i + 1)

Range(s) == {s[i] : i \in 1..Len(s)}
LeafPaths(c) == Range(LeafPathSeq(c, <<>>, 1))

RECURSIVE At(_, _)
\* the value of Container c at a path (Missing if there is none)
At(c, path) ==
  IF path = <<>> THEN ContV(c)
  ELSE IF ~HasKey(c, Head(path)) THEN Missing
  ELSE LET v == c[IndexOf(c, Head(path))].val
       IN IF Len(path) = 1 THEN v
          ELSE IF v.kind = "cont" THEN At(v.sub, Tail(path)) ELSE Missing

RECURSIVE SetAt(_, _, _)
\* Container c with the leaf slot at path holding the value n (the slot is
\* created when c has none)
SetAt(c, path, n) ==
  LET k == Head(path)
      old == IF HasKey(c, k) THEN c[IndexOf(c, k)].val ELSE Missing
      new == IF Len(path) = 1 THEN n
             ELSE ContV(SetAt(IF old.kind = "cont" THEN old.sub ELSE <<>>, Tail(path), n))
  IN IF HasKey(c, k) THEN [c EXCEPT ![IndexOf(c, k)] = Entry(k, new)]
     ELSE Append(c, Entry(k, new))

(***************************************************************************)
(* Argument values.  A positional argument is a reference to a Container   *)
(* on the heap or a plain array.  key_chains is None or a collection of    *)
(* key chains (paths).                                                     *)
(***************************************************************************)
Ref(id) == [isCont |-> TRUE, ref |-> id, val |-> 0]
Arr(n) == [isCont |-> FALSE, ref |-> "", val |-> n]
NoKeyChains == [given |-> FALSE, chains |-> {}]
KeyChains(S) == [given |-> TRUE, chains |-> S]
ControlNames == {"key_chains", "to_apply", "prune_unapplied", "map_sequences", "out"}

(***************************************************************************)
(* The methods of ContainerWithLinearAlgebra.  Each definition is one       *)
(* method: its positional-only parameters, its keyword-only parameters    *)
(* with their defaults, and the one call its body makes (the target, the   *)
(* operation name given to the mapper, the local names passed             *)
(* positionally, and keyword |-> the local name passed under it).         *)
(***************************************************************************)
\* static_matmul as it would be with x2 passed before x1
static_matmul_SwappedArgs ==
  [positional |-> <<"x1", "x2">>,
   defaults |-> [transpose_a |-> "False", transpose_b |-> "False", adjoint_a |-> "False", adjoint_b |-> "False", key_chains |-> NoKeyChains, to_apply |-> TRUE, prune_unapplied |-> FALSE, map_sequences |-> FALSE, out |-> "None"],
   target |-> [kind |-> "mapper", name |-> "cont_multi_map_in_function"],
   fn |-> "matmul",
   args |-> <<"x2", "x1">>,
   kwargs |-> [transpose_a |-> "transpose_a", transpose_b |-> "transpose_b", adjoint_a |-> "adjoint_a", adjoint_b |-> "adjoint_b", key_chains |-> "key_chains", to_apply |-> "to_apply", prune_unapplied |-> "prune_unapplied", map_sequences |-> "map_sequences", out |-> "out"]]

\* static_matmul as it would be with to_apply=prune_unapplied in its call
static_matmul_ToApplyFromPrune ==
  [positional |-> <<"x1", "x2">>,
   defaults |-> [transpose_a |-> "False", transpose_b |-> "False", adjoint_a |-> "False", adjoint_b |-> "False", key_chains |-> NoKeyChains, to_apply |-> TRUE, prune_unapplied |-> FALSE, map_sequences |-> FALSE, out |-> "None"],
   target |-> [kind |-> "mapper", name |-> "cont_multi_map_in_function"],
   fn |-> "matmul",
   args |-> <<"x1", "x2">>,
   kwargs |-> [transpose_a |-> "transpose_a", transpose_b |-> "transpose_b", adjoint_a |-> "adjoint_a", adjoint_b |-> "adjoint_b", key_chains |-> "key_chains", to_apply |-> "prune_unapplied", prune_unapplied |-> "prune_unapplied", map_sequences |-> "map_sequences", out |-> "out"]]

\* static_matmul as it would be with x1 passed in the place of x2
static_matmul_X1Twice ==
  [positional |-> <<"x1", "x2">>,
   defaults |-> [transpose_a |-> "False", transpose_b |-> "False", adjoint_a |-> "False", adjoint_b |-> "False", key_chains |-> NoKeyChains, to_apply |-> TRUE, prune_unapplied |-> FALSE, map_sequences |-> FALSE, out |-> "None"],
   target |-> [kind |-> "mapper", name |-> "cont_multi_map_in_function"],
   fn |-> "matmul",
   args |-> <<"x1", "x1">>,
   kwargs |-> [transpose_a |-> "transpose_a", transpose_b |-> "transpose_b", adjoint_a |-> "adjoint_a", adjoint_b |-> "adjoint_b", key_chains |-> "key_chains", to_apply |-> "to_apply", prune_unapplied |-> "prune_unapplied", map_sequences |-> "map_sequences", out |-> "out"]]

\* static_matmul as it would be with x2 passed in both positions
static_matmul_X2Twice ==
  [positional |-> <<"x1", "x2">>,
   defaults |-> [transpose_a |-> "False", transpose_b |-> "False", adjoint_a |-> "False", adjoint_b |-> "False", key_chains |-> NoKeyChains, to_apply |-> TRUE, prune_unapplied |-> FALSE, map_sequences |-> FALSE, out |-> "None"],
   target |-> [kind |-> "mapper", name |-> "cont_multi_map_in_function"],
   fn |-> "matmul",
   args |-> <<"x2", "x2">>,
   kwargs |-> [transpose_a |-> "transpose_a", transpose_b |-> "transpose_b", adjoint_a |-> "adjoint_a", adjoint_b |-> "adjoint_b", key_chains |-> "key_chains", to_apply |-> "to_apply", prune_unapplied |-> "prune_unapplied", map_sequences |-> "map_sequences", out |-> "out"]]

static_matmul ==
  [positional |-> <<"x1", "x2">>,
   defaults |-> [transpose_a |-> "False", transpose_b |-> "False", adjoint_a |-> "False", adjoint_b |-> "False", key_chains |-> NoKeyChains, to_apply |-> TRUE, prune_unapplied |-> FALSE, map_sequences |-> FALSE, out |-> "None"],
   target |-> [kind |-> "mapper", name |-> "cont_multi_map_in_function"],
   fn |-> "matmul",
   args |-> <<"x1", "x2">>,
   kwargs |-> [transpose_a |-> "transpose_a", transpose_b |-> "transpose_b", adjoint_a |-> "adjoint_a", adjoint_b |-> "adjoint_b", key_chains |-> "key_chains", to_apply |-> "to_apply", prune_unapplied |-> "prune_unapplied", map_sequences |-> "map_sequences", out |-> "out"]]

\* matmul as it would be with x2 passed before self
matmul_SwappedArgs ==
  [positional |-> <<"self", "x2">>,
   defaults |-> [transpose_a |-> "False", transpose_b |-> "False", adjoint_a |-> "False", adjoint_b |-> "False", key_chains |-> NoKeyChains, to_apply |-> TRUE, prune_unapplied |-> FALSE, map_sequences |-> FALSE, out |-> "None"],
   target |-> [kind |-> "static", name |-> "matmul"],
   fn |-> "",
   args |-> <<"x2", "self">>,
   kwargs |-> [transpose_a |-> "transpose_a", transpose_b |-> "transpose_b", adjoint_a |-> "adjoint_a", adjoint_b |-> "adjoint_b", key_chains |-> "key_chains", to_apply |-> "to_apply", prune_unapplied |-> "prune_unapplied", map_sequences |-> "map_sequences", out |-> "out"]]

matmul ==
  [positional |-> <<"self", "x2">>,
   defaults |-> [transpose_a |-> "False", transpose_b |-> "False", adjoint_a |-> "False", adjoint_b |-> "False", key_chains |-> NoKeyChains, to_apply |-> TRUE, prune_unapplied |-> FALSE, map_sequences |-> FALSE, out |-> "None"],
   target |-> [kind |-> "static", name |-> "matmul"],
   fn |-> "",
   args |-> <<"self", "x2">>,
   kwargs |-> [transpose_a |-> "transpose_a", transpose_b |-> "transpose_b", adjoint_a |-> "adjoint_a", adjoint_b |-> "adjoint_b", key_chains |-> "key_chains", to_apply |-> "to_apply", prune_unapplied |-> "prune_unapplied", map_sequences |-> "map_sequences", out |-> "out"]]

static_cholesky ==
  [positional |-> <<"x">>,
   defaults |-> [upper |-> "False", key_chains |-> NoKeyChains, to_apply |-> TRUE, prune_unapplied |-> FALSE, map_sequences |-> FALSE, out |-> "None"],
   target |-> [kind |-> "mapper", name |-> "cont_multi_map_in_function"],
   fn |-> "cholesky",
   args |-> <<"x">>,
   kwargs |-> [upper |-> "upper", key_chains |-> "key_chains", to_apply |-> "to_apply", prune_unapplied |-> "prune_unapplied", map_sequences |-> "map_sequences", out |-> "out"]]

cholesky ==
  [positional |-> <<"self">>,
   defaults |-> [upper |-> "False", key_chains |-> NoKeyChains, to_apply |-> TRUE, prune_unapplied |-> FALSE, map_sequences |-> FALSE, out |-> "None"],
   target |-> [kind |-> "static", name |-> "cholesky"],
   fn |-> "",
   args |-> <<"self">>,
   kwargs |-> [upper |-> "upper", key_chains |-> "key_chains", to_apply |-> "to_apply", prune_unapplied |-> "prune_unapplied", map_sequences |-> "map_sequences", out |-> "out"]]

\* static_cross as it would be with x2 passed before x1
static_cross_SwappedArgs ==
  [positional |-> <<"x1", "x2">>,
   defaults |-> [axis |-> "-1", key_chains |-> NoKeyChains, to_apply |-> TRUE, prune_unapplied |-> FALSE, map_sequences |-> FALSE, out |-> "None"],
   target |-> [kind |-> "mapper", name |-> "cont_multi_map_in_function"],
   fn |-> "cross",
   args |-> <<"x2", "x1">>,
   kwargs |-> [axis |-> "axis", key_chains |-> "key_chains", to_apply |-> "to_apply", prune_unapplied |-> "prune_unapplied", map_sequences |-> "map_sequences", out |-> "out"]]

static_cross ==
  [positional |-> <<"x1", "x2">>,
   defaults |-> [axis |-> "-1", key_chains |-> NoKeyChains, to_apply |-> TRUE, prune_unapplied |-> FALSE, map_sequences |-> FALSE, out |-> "None"],
   target |-> [kind |-> "mapper", name |-> "cont_multi_map_in_function"],
   fn |-> "cross",
   args |-> <<"x1", "x2">>,
   kwargs |-> [axis |-> "axis", key_chains |-> "key_chains", to_apply |-> "to_apply", prune_unapplied |-> "prune_unapplied", map_sequences |-> "map_sequences", out |-> "out"]]

\* cross as it would be without prune_unapplied=prune_unapplied in its call
cross_NoPrune ==
  [positional |-> <<"self", "x2">>,
   defaults |-> [axis |-> "-1", key_chains |-> NoKeyChains, to_apply |-> TRUE, prune_unapplied |-> FALSE, map_sequences |-> FALSE, out |-> "None"],
   target |-> [kind |-> "static", name |-> "cross"],
   fn |-> "",
   args |-> <<"self", "x2">>,
   kwargs |-> [axis |-> "axis", key_chains |-> "key_chains", to_apply |-> "to_apply", map_sequences |-> "map_sequences", out |-> "out"]]

\* cross as it would be with x2 passed before self
cross_SwappedArgs ==
  [positional |-> <<"self", "x2">>,
   defaults |-> [axis |-> "-1", key_chains |-> NoKeyChains, to_apply |-> TRUE, prune_unapplied |-> FALSE, map_sequences |-> FALSE, out |-> "None"],
   target |-> [kind |-> "static", name |-> "cross"],
   fn |-> "",
   args |-> <<"x2", "self">>,
   kwargs |-> [axis |-> "axis", key_chains |-> "key_chains", to_apply |-> "to_apply", prune_unapplied |-> "prune_unapplied", map_sequences |-> "map_sequences", out |-> "out"]]

cross ==
  [positional |-> <<"self", "x2">>,
   defaults |-> [axis |-> "-1", key_chains |-> NoKeyChains, to_apply |-> TRUE, prune_unapplied |-> FALSE, map_sequences |-> FALSE, out |-> "None"],
   target |-> [kind |-> "static", name |-> "cross"],
   fn |-> "",
   args |-> <<"self", "x2">>,
   kwargs |-> [axis |-> "axis", key_chains |-> "key_chains", to_apply |-> "to_apply", prune_unapplied |-> "prune_unapplied", map_sequences |-> "map_sequences", out |-> "out"]]

\* static_det as it would be without key_chains=key_chains in its call
static_det_NoKeyChains ==
  [positional |-> <<"x">>,
   defaults |-> [key_chains |-> NoKeyChains, to_apply |-> TRUE, prune_unapplied |-> FALSE, map_sequences |-> FALSE, out |-> "None"],
   target |-> [kind |-> "mapper", name |-> "cont_multi_map_in_function"],
   fn |-> "det",
   args |-> <<"x">>,
   kwargs |-> [to_apply |-> "to_apply", prune_unapplied |-> "prune_unapplied", map_sequences |-> "map_sequences", out |-> "out"]]

static_det ==
  [positional |-> <<"x">>,
   defaults |-> [key_chains |-> NoKeyChains, to_apply |-> TRUE, prune_unapplied |-> FALSE, map_sequences |-> FALSE, out |-> "None"],
   target |-> [kind |-> "mapper", name |-> "cont_multi_map_in_function"],
   fn |-> "det",
   args |-> <<"x">>,
   kwargs |-> [key_chains |-> "key_chains", to_apply |-> "to_apply", prune_unapplied |-> "prune_unapplied", map_sequences |-> "map_sequences", out |-> "out"]]

det ==
  [positional |-> <<"self">>,
   defaults |-> [key_chains |-> NoKeyChains, to_apply |-> TRUE, prune_unapplied |-> FALSE, map_sequences |-> FALSE, out |-> "None"],
   target |-> [kind |-> "static", name |-> "det"],
   fn |-> "",
   args |-> <<"self">>,
   kwargs |-> [key_chains |-> "key_chains", to_apply |-> "to_apply", prune_unapplied |-> "prune_unapplied", map_sequences |-> "map_sequences", out |-> "out"]]

static_diagonal ==
  [positional |-> <<"x">>,
   defaults |-> [offset |-> "0", axis1 |-> "-2", axis2 |-> "-1", key_chains |-> NoKeyChains, to_apply |-> TRUE, prune_unapplied |-> FALSE, map_sequences |-> FALSE, out |-> "None"],
   target |-> [kind |-> "mapper", name |-> "cont_multi_map_in_function"],
   fn |-> "diagonal",
   args |-> <<"x">>,
   kwargs |-> [offset |-> "offset", axis1 |-> "axis1", axis2 |-> "axis2", key_chains |-> "key_chains", to_apply |-> "to_apply", prune_unapplied |-> "prune_unapplied", map_sequences |-> "map_sequences", out |-> "out"]]

diagonal ==
  [positional |-> <<"self">>,
   defaults |-> [offset |-> "0", axis1 |-> "-2", axis2 |-> "-1", key_chains |-> NoKeyChains, to_apply |-> TRUE, prune_unapplied |-> FALSE, map_sequences |-> FALSE, out |-> "None"],
   target |-> [kind |-> "static", name |-> "diagonal"],
   fn |-> "",
   args |-> <<"self">>,
   kwargs |-> [offset |-> "offset", axis1 |-> "axis1", axis2 |-> "axis2", key_chains |-> "key_chains", to_apply |-> "to_apply", prune_unapplied |-> "prune_unapplied", map_sequences |-> "map_sequences", out |-> "out"]]

\* static_diag as it would be if it named the operation diagonal
static_diag_AsDiagonal ==
  [positional |-> <<"x">>,
   defaults |-> [k |-> "0", key_chains |-> NoKeyChains, to_apply |-> TRUE, prune_unapplied |-> FALSE, map_sequences |-> FALSE, out |-> "None"],
   target |-> [kind |-> "mapper", name |-> "cont_multi_map_in_function"],
   fn |-> "diagonal",
   args |-> <<"x">>,
   kwargs |-> [k |-> "k", key_chains |-> "key_chains", to_apply |-> "to_apply", prune_unapplied |-> "prune_unapplied", map_sequences |-> "map_sequences", out |-> "out"]]

static_diag ==
  [positional |-> <<"x">>,
   defaults |-> [k |-> "0", key_chains |-> NoKeyChains, to_apply |-> TRUE, prune_unapplied |-> FALSE, map_sequences |-> FALSE, out |-> "None"],
   target |-> [kind |-> "mapper", name |-> "cont_multi_map_in_function"],
   fn |-> "diag",
   args |-> <<"x">>,
   kwargs |-> [k |-> "k", key_chains |-> "key_chains", to_apply |-> "to_apply", prune_unapplied |-> "prune_unapplied", map_sequences |-> "map_sequences", out |-> "out"]]

diag ==
  [positional |-> <<"self">>,
   defaults |-> [k |-> "0", key_chains |-> NoKeyChains, to_apply |-> TRUE, prune_unapplied |-> FALSE, map_sequences |-> FALSE, out |-> "None"],
   target |-> [kind |-> "static", name |-> "diag"],
   fn |-> "",
   args |-> <<"self">>,
   kwargs |-> [k |-> "k", key_chains |-> "key_chains", to_apply |-> "to_apply", prune_unapplied |-> "prune_unapplied", map_sequences |-> "map_sequences", out |-> "out"]]

static_eigh ==
  [positional |-> <<"x">>,
   defaults |-> [UPLO |-> "'L'", key_chains |-> NoKeyChains, to_apply |-> TRUE, prune_unapplied |-> FALSE, map_sequences |-> FALSE, out |-> "None"],
   target |-> [kind |-> "mapper", name |-> "cont_multi_map_in_function"],
   fn |-> "eigh",
   args |-> <<"x">>,
   kwargs |-> [UPLO |-> "UPLO", key_chains |-> "key_chains", to_apply |-> "to_apply", prune_unapplied |-> "prune_unapplied", map_sequences |-> "map_sequences", out |-> "out"]]

eigh ==
  [positional |-> <<"self">>,
   defaults |-> [UPLO |-> "'L'", key_chains |-> NoKeyChains, to_apply |-> TRUE, prune_unapplied |-> FALSE, map_sequences |-> FALSE, out |-> "None"],
   target |-> [kind |-> "static", name |-> "eigh"],
   fn |-> "",
   args |-> <<"self">>,
   kwargs |-> [UPLO |-> "UPLO", key_chains |-> "key_chains", to_apply |-> "to_apply", prune_unapplied |-> "prune_unapplied", map_sequences |-> "map_sequences", out |-> "out"]]

static_eigvalsh ==
  [positional |-> <<"x">>,
   defaults |-> [UPLO |-> "'L'", key_chains |-> NoKeyChains, to_apply |-> TRUE, prune_unapplied |-> FALSE, map_sequences |-> FALSE, out |-> "None"],
   target |-> [kind |-> "mapper", name |-> "cont_multi_map_in_function"],
   fn |-> "eigvalsh",
   args |-> <<"x">>,
   kwargs |-> [UPLO |-> "UPLO", key_chains |-> "key_chains", to_apply |-> "to_apply", prune_unapplied |-> "prune_unapplied", map_sequences |-> "map_sequences", out |-> "out"]]

eigvalsh ==
  [positional |-> <<"self">>,
   defaults |-> [UPLO |-> "'L'", key_chains |-> NoKeyChains, to_apply |-> TRUE, prune_unapplied |-> FALSE, map_sequences |-> FALSE, out |-> "None"],
   target |-> [kind |-> "static", name |-> "eigvalsh"],
   fn |-> "",
   args |-> <<"self">>,
   kwargs |-> [UPLO |-> "UPLO", key_chains |-> "key_chains", to_apply |-> "to_apply", prune_unapplied |-> "prune_unapplied", map_sequences |-> "map_sequences", out |-> "out"]]

static_inner ==
  [positional |-> <<"x1", "x2">>,
   defaults |-> [key_chains |-> NoKeyChains, to_apply |-> TRUE, prune_unapplied |-> FALSE, map_sequences |-> FALSE, out |-> "None"],
   target |-> [kind |-> "mapper", name |-> "cont_multi_map_in_function"],
   fn |-> "inner",
   args |-> <<"x1", "x2">>,
   kwargs |-> [key_chains |-> "key_chains", to_apply |-> "to_apply", prune_unapplied |-> "prune_unapplied", map_sequences |-> "map_sequences", out |-> "out"]]

inner ==
  [positional |-> <<"self", "x2">>,
   defaults |-> [key_chains |-> NoKeyChains, to_apply |-> TRUE, prune_unapplied |-> FALSE, map_sequences |-> FALSE, out |-> "None"],
   target |-> [kind |-> "static", name |-> "inner"],
   fn |-> "",
   args |-> <<"self", "x2">>,
   kwargs |-> [key_chains |-> "key_chains", to_apply |-> "to_apply", prune_unapplied |-> "prune_unapplied", map_sequences |-> "map_sequences", out |-> "out"]]

\* static_inv as it would be without map_sequences=map_sequences in its call
static_inv_NoMapSequences ==
  [positional |-> <<"x">>,
   defaults |-> [adjoint |-> "False", key_chains |-> NoKeyChains, to_apply |-> TRUE, prune_unapplied |-> FALSE, map_sequences |-> FALSE, out |-> "None"],
   target |-> [kind |-> "mapper", name |-> "cont_multi_map_in_function"],
   fn |-> "inv",
   args |-> <<"x">>,
   kwargs |-> [adjoint |-> "adjoint", key_chains |-> "key_chains", to_apply |-> "to_apply", prune_unapplied |-> "prune_unapplied", out |-> "out"]]

static_inv ==
  [positional |-> <<"x">>,
   defaults |-> [adjoint |-> "False", key_chains |-> NoKeyChains, to_apply |-> TRUE, prune_unapplied |-> FALSE, map_sequences |-> FALSE, out |-> "None"],
   target |-> [kind |-> "mapper", name |-> "cont_multi_map_in_function"],
   fn |-> "inv",
   args |-> <<"x">>,
   kwargs |-> [adjoint |-> "adjoint", key_chains |-> "key_chains", to_apply |-> "to_apply", prune_unapplied |-> "prune_unapplied", map_sequences |-> "map_sequences", out |-> "out"]]

\* inv as it would be without out=out in its call
inv_NoOut ==
  [positional |-> <<"self">>,
   defaults |-> [adjoint |-> "False", key_chains |-> NoKeyChains, to_apply |-> TRUE, prune_unapplied |-> FALSE, map_sequences |-> FALSE, out |-> "None"],
   target |-> [kind |-> "static", name |-> "inv"],
   fn |-> "",
   args |-> <<"self">>,
   kwargs |-> [adjoint |-> "adjoint", key_chains |-> "key_chains", to_apply |-> "to_apply", prune_unapplied |-> "prune_unapplied", map_sequences |-> "map_sequences"]]

inv ==
  [positional |-> <<"self">>,
   defaults |-> [adjoint |-> "False", key_chains |-> NoKeyChains, to_apply |-> TRUE, prune_unapplied |-> FALSE, map_sequences |-> FALSE, out |-> "None"],
   target |-> [kind |-> "static", name |-> "inv"],
   fn |-> "",
   args |-> <<"self">>,
   kwargs |-> [adjoint |-> "adjoint", key_chains |-> "key_chains", to_apply |-> "to_apply", prune_unapplied |-> "prune_unapplied", map_sequences |-> "map_sequences", out |-> "out"]]

static_pinv ==
  [positional |-> <<"x">>,
   defaults |-> [rtol |-> "None", out |-> "None"],
   target |-> [kind |-> "mapper", name |-> "cont_multi_map_in_function"],
   fn |-> "pinv",
   args |-> <<"x">>,
   kwargs |-> [rtol |-> "rtol", out |-> "out"]]

pinv ==
  [positional |-> <<"self">>,
   defaults |-> [rtol |-> "None", out |-> "None"],
   target |-> [kind |-> "static", name |-> "pinv"],
   fn |-> "",
   args |-> <<"self">>,
   kwargs |-> [rtol |-> "rtol", out |-> "out"]]

\* static_matrix_norm as it would be with ord=axis in its call
static_matrix_norm_OrdFromAxis ==
  [positional |-> <<"x">>,
   defaults |-> [ord |-> "'fro'", axis |-> "(-2, -1)", keepdims |-> "False", key_chains |-> NoKeyChains, to_apply |-> TRUE, prune_unapplied |-> FALSE, map_sequences |-> FALSE, out |-> "None"],
   target |-> [kind |-> "mapper", name |-> "cont_multi_map_in_function"],
   fn |-> "matrix_norm",
   args |-> <<"x">>,
   kwargs |-> [ord |-> "axis", axis |-> "axis", keepdims |-> "keepdims", key_chains |-> "key_chains", to_apply |-> "to_apply", prune_unapplied |-> "prune_unapplied", map_sequences |-> "map_sequences", out |-> "out"]]

static_matrix_norm ==
  [positional |-> <<"x">>,
   defaults |-> [ord |-> "'fro'", axis |-> "(-2, -1)", keepdims |-> "False", key_chains |-> NoKeyChains, to_apply |-> TRUE, prune_unapplied |-> FALSE, map_sequences |-> FALSE, out |-> "None"],
   target |-> [kind |-> "mapper", name |-> "cont_multi_map_in_function"],
   fn |-> "matrix_norm",
   args |-> <<"x">>,
   kwargs |-> [ord |-> "ord", axis |-> "axis", keepdims |-> "keepdims", key_chains |-> "key_chains", to_apply |-> "to_apply", prune_unapplied |-> "prune_unapplied", map_sequences |-> "map_sequences", out |-> "out"]]

matrix_norm ==
  [positional |-> <<"self">>,
   defaults |-> [ord |-> "'fro'", axis |-> "(-2, -1)", keepdims |-> "False", key_chains |-> NoKeyChains, to_apply |-> TRUE, prune_unapplied |-> FALSE, map_sequences |-> FALSE, out |-> "None"],
   target |-> [kind |-> "static", name |-> "matrix_norm"],
   fn |-> "",
   args |-> <<"self">>,
   kwargs |-> [ord |-> "ord", axis |-> "axis", keepdims |-> "keepdims", key_chains |-> "key_chains", to_apply |-> "to_apply", prune_unapplied |-> "prune_unapplied", map_sequences |-> "map_sequences", out |-> "out"]]

\* static_matrix_power as it would be with x passed in the place of n
static_matrix_power_XForN ==
  [positional |-> <<"x", "n">>,
   defaults |-> [key_chains |-> NoKeyChains, to_apply |-> TRUE, prune_unapplied |-> FALSE, map_sequences |-> FALSE, out |-> "None"],
   target |-> [kind |-> "mapper", name |-> "cont_multi_map_in_function"],
   fn |-> "matrix_power",
   args |-> <<"x", "x">>,
   kwargs |-> [key_chains |-> "key_chains", to_apply |-> "to_apply", prune_unapplied |-> "prune_unapplied", map_sequences |-> "map_sequences", out |-> "out"]]

static_matrix_power ==
  [positional |-> <<"x", "n">>,
   defaults |-> [key_chains |-> NoKeyChains, to_apply |-> TRUE, prune_unapplied |-> FALSE, map_sequences |-> FALSE, out |-> "None"],
   target |-> [kind |-> "mapper", name |-> "cont_multi_map_in_function"],
   fn |-> "matrix_power",
   args |-> <<"x", "n">>,
   kwargs |-> [key_chains |-> "key_chains", to_apply |-> "to_apply", prune_unapplied |-> "prune_unapplied", map_sequences |-> "map_sequences", out |-> "out"]]

matrix_power ==
  [positional |-> <<"self", "n">>,
   defaults |-> [key_chains |-> NoKeyChains, to_apply |-> TRUE, prune_unapplied |-> FALSE, map_sequences |-> FALSE, out |-> "None"],
   target |-> [kind |-> "static", name |-> "matrix_power"],
   fn |-> "",
   args |-> <<"self", "n">>,
   kwargs |-> [key_chains |-> "key_chains", to_apply |-> "to_apply", prune_unapplied |-> "prune_unapplied", map_sequences |-> "map_sequences", out |-> "out"]]

static_matrix_rank ==
  [positional |-> <<"x">>,
   defaults |-> [atol |-> "None", rtol |-> "None", key_chains |-> NoKeyChains, to_apply |-> TRUE, prune_unapplied |-> FALSE, map_sequences |-> FALSE, out |-> "None"],
   target |-> [kind |-> "mapper", name |-> "cont_multi_map_in_function"],
   fn |-> "matrix_rank",
   args |-> <<"x">>,
   kwargs |-> [key_chains |-> "key_chains", to_apply |-> "to_apply", prune_unapplied |-> "prune_unapplied", map_sequences |-> "map_sequences", atol |-> "atol", rtol |-> "rtol", out |-> "out"]]

matrix_rank ==
  [positional |-> <<"self">>,
   defaults |-> [atol |-> "None", rtol |-> "None", key_chains |-> NoKeyChains, to_apply |-> TRUE, prune_unapplied |-> FALSE, map_sequences |-> FALSE, out |-> "None"],
   target |-> [kind |-> "static", name |-> "matrix_rank"],
   fn |-> "",
   args |-> <<"self">>,
   kwargs |-> [atol |-> "atol", rtol |-> "rtol", key_chains |-> "key_chains", to_apply |-> "to_apply", prune_unapplied |-> "prune_unapplied", map_sequences |-> "map_sequences", out |-> "out"]]

static_matrix_transpose ==
  [positional |-> <<"x">>,
   defaults |-> [conjugate |-> "False", key_chains |-> NoKeyChains, to_apply |-> TRUE, prune_unapplied |-> FALSE, map_sequences |-> FALSE, out |-> "None"],
   target |-> [kind |-> "mapper", name |-> "cont_multi_map_in_function"],
   fn |-> "matrix_transpose",
   args |-> <<"x">>,
   kwargs |-> [conjugate |-> "conjugate", key_chains |-> "key_chains", to_apply |-> "to_apply", prune_unapplied |-> "prune_unapplied", map_sequences |-> "map_sequences", out |-> "out"]]

matrix_transpose ==
  [positional |-> <<"self">>,
   defaults |-> [conjugate |-> "False", key_chains |-> NoKeyChains, to_apply |-> TRUE, prune_unapplied |-> FALSE, map_sequences |-> FALSE, out |-> "None"],
   target |-> [kind |-> "static", name |-> "matrix_transpose"],
   fn |-> "",
   args |-> <<"self">>,
   kwargs |-> [conjugate |-> "conjugate", key_chains |-> "key_chains", to_apply |-> "to_apply", prune_unapplied |-> "prune_unapplied", map_sequences |-> "map_sequences", out |-> "out"]]

\* static_outer as it would be with x2 passed before x1
static_outer_SwappedArgs ==
  [positional |-> <<"x1", "x2">>,
   defaults |-> [key_chains |-> NoKeyChains, to_apply |-> TRUE, prune_unapplied |-> FALSE, map_sequences |-> FALSE, out |-> "None"],
   target |-> [kind |-> "mapper", name |-> "cont_multi_map_in_function"],
   fn |-> "outer",
   args |-> <<"x2", "x1">>,
   kwargs |-> [key_chains |-> "key_chains", to_apply |-> "to_apply", prune_unapplied |-> "prune_unapplied", map_sequences |-> "map_sequences", out |-> "out"]]

static_outer ==
  [positional |-> <<"x1", "x2">>,
   defaults |-> [key_chains |-> NoKeyChains, to_apply |-> TRUE, prune_unapplied |-> FALSE, map_sequences |-> FALSE, out |-> "None"],
   target |-> [kind |-> "mapper", name |-> "cont_multi_map_in_function"],
   fn |-> "outer",
   args |-> <<"x1", "x2">>,
   kwargs |-> [key_chains |-> "key_chains", to_apply |-> "to_apply", prune_unapplied |-> "prune_unapplied", map_sequences |-> "map_sequences", out |-> "out"]]

outer ==
  [positional |-> <<"self", "x2">>,
   defaults |-> [key_chains |-> NoKeyChains, to_apply |-> TRUE, prune_unapplied |-> FALSE, map_sequences |-> FALSE, out |-> "None"],
   target |-> [kind |-> "static", name |-> "outer"],
   fn |-> "",
   args |-> <<"self", "x2">>,
   kwargs |-> [key_chains |-> "key_chains", to_apply |-> "to_apply", prune_unapplied |-> "prune_unapplied", map_sequences |-> "map_sequences", out |-> "out"]]

static_qr ==
  [positional |-> <<"x">>,
   defaults |-> [mode |-> "'reduced'", key_chains |-> NoKeyChains, to_apply |-> TRUE, prune_unapplied |-> FALSE, map_sequences |-> FALSE, out |-> "None"],
   target |-> [kind |-> "mapper", name |-> "cont_multi_map_in_function"],
   fn |-> "qr",
   args |-> <<"x">>,
   kwargs |-> [mode |-> "mode", key_chains |-> "key_chains", to_apply |-> "to_apply", prune_unapplied |-> "prune_unapplied", map_sequences |-> "map_sequences", out |-> "out"]]

qr ==
  [positional |-> <<"self">>,
   defaults |-> [mode |-> "'reduced'", key_chains |-> NoKeyChains, to_apply |-> TRUE, prune_unapplied |-> FALSE, map_sequences |-> FALSE, out |-> "None"],
   target |-> [kind |-> "static", name |-> "qr"],
   fn |-> "",
   args |-> <<"self">>,
   kwargs |-> [mode |-> "mode", key_chains |-> "key_chains", to_apply |-> "to_apply", prune_unapplied |-> "prune_unapplied", map_sequences |-> "map_sequences", out |-> "out"]]

static_slogdet ==
  [positional |-> <<"x">>,
   defaults |-> [key_chains |-> NoKeyChains, to_apply |-> TRUE, prune_unapplied |-> FALSE, map_sequences |-> FALSE],
   target |-> [kind |-> "mapper", name |-> "cont_multi_map_in_function"],
   fn |-> "slogdet",
   args |-> <<"x">>,
   kwargs |-> [key_chains |-> "key_chains", to_apply |-> "to_apply", prune_unapplied |-> "prune_unapplied", map_sequences |-> "map_sequences"]]

slogdet ==
  [positional |-> <<"self">>,
   defaults |-> [key_chains |-> NoKeyChains, to_apply |-> TRUE, prune_unapplied |-> FALSE, map_sequences |-> FALSE],
   target |-> [kind |-> "static", name |-> "slogdet"],
   fn |-> "",
   args |-> <<"self">>,
   kwargs |-> [key_chains |-> "key_chains", to_apply |-> "to_apply", prune_unapplied |-> "prune_unapplied", map_sequences |-> "map_sequences"]]

static_solve ==
  [positional |-> <<"x1", "x2">>,
   defaults |-> [adjoint |-> "False", key_chains |-> NoKeyChains, to_apply |-> TRUE, prune_unapplied |-> FALSE, map_sequences |-> FALSE, out |-> "None"],
   target |-> [kind |-> "mapper", name |-> "cont_multi_map_in_function"],
   fn |-> "solve",
   args |-> <<"x1", "x2">>,
   kwargs |-> [adjoint |-> "adjoint", key_chains |-> "key_chains", to_apply |-> "to_apply", prune_unapplied |-> "prune_unapplied", map_sequences |-> "map_sequences", out |-> "out"]]

solve ==
  [positional |-> <<"self", "x2">>,
   defaults |-> [adjoint |-> "False", key_chains |-> NoKeyChains, to_apply |-> TRUE, prune_unapplied |-> FALSE, map_sequences |-> FALSE, out |-> "None"],
   target |-> [kind |-> "static", name |-> "solve"],
   fn |-> "",
   args |-> <<"self", "x2">>,
   kwargs |-> [adjoint |-> "adjoint", key_chains |-> "key_chains", to_apply |-> "to_apply", prune_unapplied |-> "prune_unapplied", map_sequences |-> "map_sequences", out |-> "out"]]

\* static_svd as it would be if it named the single-output operation svdvals
static_svd_AsSvdvals ==
  [positional |-> <<"x">>,
   defaults |-> [compute_uv |-> "True", full_matrices |-> "True", key_chains |-> NoKeyChains, to_apply |-> TRUE, prune_unapplied |-> FALSE, map_sequences |-> FALSE, out |-> "None"],
   target |-> [kind |-> "mapper", name |-> "cont_multi_map_in_function"],
   fn |-> "svdvals",
   args |-> <<"x">>,
   kwargs |-> [compute_uv |-> "compute_uv", full_matrices |-> "full_matrices", key_chains |-> "key_chains", to_apply |-> "to_apply", prune_unapplied |-> "prune_unapplied", map_sequences |-> "map_sequences", out |-> "out"]]

static_svd ==
  [positional |-> <<"x">>,
   defaults |-> [compute_uv |-> "True", full_matrices |-> "True", key_chains |-> NoKeyChains, to_apply |-> TRUE, prune_unapplied |-> FALSE, map_sequences |-> FALSE, out |-> "None"],
   target |-> [kind |-> "mapper", name |-> "cont_multi_map_in_function"],
   fn |-> "svd",
   args |-> <<"x">>,
   kwargs |-> [compute_uv |-> "compute_uv", full_matrices |-> "full_matrices", key_chains |-> "key_chains", to_apply |-> "to_apply", prune_unapplied |-> "prune_unapplied", map_sequences |-> "map_sequences", out |-> "out"]]

svd ==
  [positional |-> <<"self">>,
   defaults |-> [compute_uv |-> "True", full_matrices |-> "True", key_chains |-> NoKeyChains, to_apply |-> TRUE, prune_unapplied |-> FALSE, map_sequences |-> FALSE, out |-> "None"],
   target |-> [kind |-> "static", name |-> "svd"],
   fn |-> "",
   args |-> <<"self">>,
   kwargs |-> [compute_uv |-> "compute_uv", full_matrices |-> "full_matrices", key_chains |-> "key_chains", to_apply |-> "to_apply", prune_unapplied |-> "prune_unapplied", map_sequences |-> "map_sequences", out |-> "out"]]

static_svdvals ==
  [positional |-> <<"x">>,
   defaults |-> [key_chains |-> NoKeyChains, to_apply |-> TRUE, prune_unapplied |-> FALSE, map_sequences |-> FALSE, out |-> "None"],
   target |-> [kind |-> "mapper", name |-> "cont_multi_map_in_function"],
   fn |-> "svdvals",
   args |-> <<"x">>,
   kwargs |-> [key_chains |-> "key_chains", to_apply |-> "to_apply", prune_unapplied |-> "prune_unapplied", map_sequences |-> "map_sequences", out |-> "out"]]

svdvals ==
  [positional |-> <<"self">>,
   defaults |-> [key_chains |-> NoKeyChains, to_apply |-> TRUE, prune_unapplied |-> FALSE, map_sequences |-> FALSE, out |-> "None"],
   target |-> [kind |-> "static", name |-> "svdvals"],
   fn |-> "",
   args |-> <<"self">>,
   kwargs |-> [key_chains |-> "key_chains", to_apply |-> "to_apply", prune_unapplied |-> "prune_unapplied", map_sequences |-> "map_sequences", out |-> "out"]]

static_tensordot ==
  [positional |-> <<"x1", "x2">>,
   defaults |-> [axes |-> "2", key_chains |-> NoKeyChains, to_apply |-> TRUE, prune_unapplied |-> FALSE, map_sequences |-> FALSE, out |-> "None"],
   target |-> [kind |-> "mapper", name |-> "cont_multi_map_in_function"],
   fn |-> "tensordot",
   args |-> <<"x1", "x2">>,
   kwargs |-> [axes |-> "axes", key_chains |-> "key_chains", to_apply |-> "to_apply", prune_unapplied |-> "prune_unapplied", map_sequences |-> "map_sequences", out |-> "out"]]

tensordot ==
  [positional |-> <<"self", "x2">>,
   defaults |-> [axes |-> "2", key_chains |-> NoKeyChains, to_apply |-> TRUE, prune_unapplied |-> FALSE, map_sequences |-> FALSE, out |-> "None"],
   target |-> [kind |-> "static", name |-> "tensordot"],
   fn |-> "",
   args |-> <<"self", "x2">>,
   kwargs |-> [axes |-> "axes", key_chains |-> "key_chains", to_apply |-> "to_apply", prune_unapplied |-> "prune_unapplied", map_sequences |-> "map_sequences", out |-> "out"]]

tensorsolve ==
  [positional |-> <<"self", "x2">>,
   defaults |-> [axes |-> "None"],
   target |-> [kind |-> "bound", name |-> "tensorsolve"],
   fn |-> "",
   args |-> <<"self", "x2">>,
   kwargs |-> [axes |-> "axes"]]

\* static_trace as it would be with offset=1 as its default
static_trace_OffsetOne ==
  [positional |-> <<"x">>,
   defaults |-> [offset |-> "1", axis1 |-> "0", axis2 |-> "1", key_chains |-> NoKeyChains, to_apply |-> TRUE, prune_unapplied |-> FALSE, map_sequences |-> FALSE, out |-> "None"],
   target |-> [kind |-> "mapper", name |-> "cont_multi_map_in_function"],
   fn |-> "trace",
   args |-> <<"x">>,
   kwargs |-> [offset |-> "offset", axis1 |-> "axis1", axis2 |-> "axis2", key_chains |-> "key_chains", to_apply |-> "to_apply", prune_unapplied |-> "prune_unapplied", map_sequences |-> "map_sequences", out |-> "out"]]

static_trace ==
  [positional |-> <<"x">>,
   defaults |-> [offset |-> "0", axis1 |-> "0", axis2 |-> "1", key_chains |-> NoKeyChains, to_apply |-> TRUE, prune_unapplied |-> FALSE, map_sequences |-> FALSE, out |-> "None"],
   target |-> [kind |-> "mapper", name |-> "cont_multi_map_in_function"],
   fn |-> "trace",
   args |-> <<"x">>,
   kwargs |-> [offset |-> "offset", axis1 |-> "axis1", axis2 |-> "axis2", key_chains |-> "key_chains", to_apply |-> "to_apply", prune_unapplied |-> "prune_unapplied", map_sequences |-> "map_sequences", out |-> "out"]]

trace ==
  [positional |-> <<"self">>,
   defaults |-> [offset |-> "0", axis1 |-> "0", axis2 |-> "1", key_chains |-> NoKeyChains, to_apply |-> TRUE, prune_unapplied |-> FALSE, map_sequences |-> FALSE, out |-> "None"],
   target |-> [kind |-> "static", name |-> "trace"],
   fn |-> "",
   args |-> <<"self">>,
   kwargs |-> [offset |-> "offset", axis1 |-> "axis1", axis2 |-> "axis2", key_chains |-> "key_chains", to_apply |-> "to_apply", prune_unapplied |-> "prune_unapplied", map_sequences |-> "map_sequences", out |-> "out"]]

static_vecdot ==
  [positional |-> <<"x1", "x2">>,
   defaults |-> [axis |-> "-1", key_chains |-> NoKeyChains, to_apply |-> TRUE, prune_unapplied |-> FALSE, map_sequences |-> FALSE, out |-> "None"],
   target |-> [kind |-> "mapper", name |-> "cont_multi_map_in_function"],
   fn |-> "vecdot",
   args |-> <<"x1", "x2">>,
   kwargs |-> [axis |-> "axis", key_chains |-> "key_chains", to_apply |-> "to_apply", prune_unapplied |-> "prune_unapplied", map_sequences |-> "map_sequences", out |-> "out"]]

vecdot ==
  [positional |-> <<"self", "x2">>,
   defaults |-> [axis |-> "-1", key_chains |-> NoKeyChains, to_apply |-> TRUE, prune_unapplied |-> FALSE, map_sequences |-> FALSE, out |-> "None"],
   target |-> [kind |-> "static", name |-> "vecdot"],
   fn |-> "",
   args |-> <<"self", "x2">>,
   kwargs |-> [axis |-> "axis", key_chains |-> "key_chains", to_apply |-> "to_apply", prune_unapplied |-> "prune_unapplied", map_sequences |-> "map_sequences", out |-> "out"]]

static_vector_norm ==
  [positional |-> <<"x">>,
   defaults |-> [axis |-> "None", keepdims |-> "False", ord |-> "2", dtype |-> "None", key_chains |-> NoKeyChains, to_apply |-> TRUE, prune_unapplied |-> FALSE, map_sequences |-> FALSE, out |-> "None"],
   target |-> [kind |-> "mapper", name |-> "cont_multi_map_in_function"],
   fn |-> "vector_norm",
   args |-> <<"x">>,
   kwargs |-> [axis |-> "axis", keepdims |-> "keepdims", ord |-> "ord", dtype |-> "dtype", key_chains |-> "key_chains", to_apply |-> "to_apply", prune_unapplied |-> "prune_unapplied", map_sequences |-> "map_sequences", out |-> "out"]]

vector_norm ==
  [positional |-> <<"self">>,
   defaults |-> [axis |-> "None", keepdims |-> "False", ord |-> "2", dtype |-> "None", key_chains |-> NoKeyChains, to_apply |-> TRUE, prune_unapplied |-> FALSE, map_sequences |-> FALSE, out |-> "None"],
   target |-> [kind |-> "static", name |-> "vector_norm"],
   fn |-> "",
   args |-> <<"self">>,
   kwargs |-> [axis |-> "axis", keepdims |-> "keepdims", ord |-> "ord", dtype |-> "dtype", key_chains |-> "key_chains", to_apply |-> "to_apply", prune_unapplied |-> "prune_unapplied", map_sequences |-> "map_sequences", out |-> "out"]]

static_vector_to_skew_symmetric_matrix ==
  [positional |-> <<"vector">>,
   defaults |-> [key_chains |-> NoKeyChains, to_apply |-> TRUE, prune_unapplied |-> FALSE, map_sequences |-> FALSE, out |-> "None"],
   target |-> [kind |-> "mapper", name |-> "cont_multi_map_in_function"],
   fn |-> "vector_to_skew_symmetric_matrix",
   args |-> <<"vector">>,
   kwargs |-> [key_chains |-> "key_chains", to_apply |-> "to_apply", prune_unapplied |-> "prune_unapplied", map_sequences |-> "map_sequences", out |-> "out"]]

vector_to_skew_symmetric_matrix ==
  [positional |-> <<"self">>,
   defaults |-> [key_chains |-> NoKeyChains, to_apply |-> TRUE, prune_unapplied |-> FALSE, map_sequences |-> FALSE, out |-> "None"],
   target |-> [kind |-> "static", name |-> "vector_to_skew_symmetric_matrix"],
   fn |-> "",
   args |-> <<"self">>,
   kwargs |-> [key_chains |-> "key_chains", to_apply |-> "to_apply", prune_unapplied |-> "prune_unapplied", map_sequences |-> "map_sequences", out |-> "out"]]

static_vander ==
  [positional |-> <<"x">>,
   defaults |-> [N |-> "None", increasing |-> "False", key_chains |-> NoKeyChains, to_apply |-> TRUE, prune_unapplied |-> FALSE, map_sequences |-> FALSE, out |-> "None"],
   target |-> [kind |-> "mapper", name |-> "cont_multi_map_in_function"],
   fn |-> "vander",
   args |-> <<"x">>,
   kwargs |-> [N |-> "N", increasing |-> "increasing", key_chains |-> "key_chains", to_apply |-> "to_apply", prune_unapplied |-> "prune_unapplied", map_sequences |-> "map_sequences", out |-> "out"]]

vander ==
  [positional |-> <<"self">>,
   defaults |-> [N |-> "None", increasing |-> "False", out |-> "None"],
   target |-> [kind |-> "static", name |-> "vander"],
   fn |-> "",
   args |-> <<"self">>,
   kwargs |-> [N |-> "N", increasing |-> "increasing", out |-> "out"]]

StaticMethods ==
  [matmul |-> static_matmul,
   cholesky |-> static_cholesky,
   cross |-> static_cross,
   det |-> static_det,
   diagonal |-> static_diagonal,
   diag |-> static_diag,
   eigh |-> static_eigh,
   eigvalsh |-> static_eigvalsh,
   inner |-> static_inner,
   inv |-> static_inv,
   pinv |-> static_pinv,
   matrix_norm |-> static_matrix_norm,
   matrix_power |-> static_matrix_power,
   matrix_rank |-> static_matrix_rank,
   matrix_transpose |-> static_matrix_transpose,
   outer |-> static_outer,
   qr |-> static_qr,
   slogdet |-> static_slogdet,
   solve |-> static_solve,
   svd |-> static_svd,
   svdvals |-> static_svdvals,
   tensordot |-> static_tensordot,
   trace |-> static_trace,
   vecdot |-> static_vecdot,
   vector_norm |-> static_vector_norm,
   vector_to_skew_symmetric_matrix |-> static_vector_to_skew_symmetric_matrix,
   vander |-> static_vander]

InstanceMethods ==
  [matmul |-> matmul,
   cholesky |-> cholesky,
   cross |-> cross,
   det |-> det,
   diagonal |-> diagonal,
   diag |-> diag,
   eigh |-> eigh,
   eigvalsh |-> eigvalsh,
   inner |-> inner,
   inv |-> inv,
   pinv |-> pinv,
   matrix_norm |-> matrix_norm,
   matrix_power |-> matrix_power,
   matrix_rank |-> matrix_rank,
   matrix_transpose |-> matrix_transpose,
   outer |-> outer,
   qr |-> qr,
   slogdet |-> slogdet,
   solve |-> solve,
   svd |-> svd,
   svdvals |-> svdvals,
   tensordot |-> tensordot,
   tensorsolve |-> tensorsolve,
   trace |-> trace,
   vecdot |-> vecdot,
   vector_norm |-> vector_norm,
   vector_to_skew_symmetric_matrix |-> vector_to_skew_symmetric_matrix,
   vander |-> vander]

(***************************************************************************)
(* The mapping engine ContainerBase.cont_multi_map_in_function and the     *)
(* backend it calls, modelled from the specification (sections 3 and 4).   *)
(***************************************************************************)
\* the mapper's own defaults for the control parameters a caller omits
\* MapperDefaults as they would be if the mapper, given no out, wrote its results into the primary x1
MapperDefaults_InPlace ==
  [key_chains |-> NoKeyChains, to_apply |-> TRUE, prune_unapplied |-> FALSE,
   map_sequences |-> FALSE, out |-> "x1"]

\* MapperDefaults as they would be if the mapper, given no out, wrote its results into the shared input x2
MapperDefaults_IntoSecondary ==
  [key_chains |-> NoKeyChains, to_apply |-> TRUE, prune_unapplied |-> FALSE,
   map_sequences |-> FALSE, out |-> "x2"]

MapperDefaults ==
  [key_chains |-> NoKeyChains, to_apply |-> TRUE, prune_unapplied |-> FALSE,
   map_sequences |-> FALSE, out |-> "None"]

Config(kwargs) ==
  [n \in ControlNames |-> IF n \in DOMAIN kwargs THEN kwargs[n] ELSE MapperDefaults[n]]

\* the keyword arguments forwarded to the backend at every leaf
OpKwargs(kwargs) == [n \in (DOMAIN kwargs) \ ControlNames |-> kwargs[n]]

\* the keyword arguments that are Containers (references into heap h),
\* each with the Container it names
KwConts(opkw, h) ==
  [n \in {m \in DOMAIN opkw : opkw[m] \in DOMAIN h} |-> ContV(h[opkw[n]])]

\* Selector: is the operation applied at this path?
Selected(cfg, path) ==
  IF ~cfg.key_chains.given THEN TRUE
  ELSE (path \in cfg.key_chains.chains) = cfg.to_apply

(***************************************************************************)
(* The backend: matmul, trace and matrix_transpose compute on matrices;    *)
(* on array handles every operation is a stub.                             *)
(***************************************************************************)
Rows(m) == Len(m)
Cols(m) == IF Len(m) = 0 THEN 0 ELSE Len(m[1])

RECURSIVE Dot(_, _, _, _, _)
\* sum over k >= from of a[i][k] * b[k][j]
Dot(a, b, i, j, from) ==
  IF from > Cols(a) THEN 0 ELSE a[i][from] * b[from][j] + Dot(a, b, i, j, from + 1)

MatMul(a, b) == [i \in 1..Rows(a) |-> [j \in 1..Cols(b) |-> Dot(a, b, i, j, 1)]]
Transpose(a) == [j \in 1..Cols(a) |-> [i \in 1..Rows(a) |-> a[i][j]]]

RECURSIVE Diagonal(_, _, _)
\* sum of a[i][i + offset] over the rows i >= from where that entry exists
Diagonal(a, offset, from) ==
  IF from > Rows(a) THEN 0
  ELSE (IF from + offset \in 1..Cols(a) THEN a[from][from + offset] ELSE 0)
       + Diagonal(a, offset, from + 1)

\* the value of keyword n, d when the call has none
Kw(opkw, n, d) == IF n \in DOMAIN opkw THEN opkw[n] ELSE d

\* an array no operation accepts (a singular or malformed input)
Singular == LeafV(0)

RECURSIVE Handle(_)
RECURSIVE SeqHandle(_, _, _)
\* the number that stands for the array a stub operation is given: a
\* handle is itself, a sequence converts to an array of its elements
Handle(v) == IF v.kind = "seq" THEN SeqHandle(v.sub, 1, 0) ELSE v.leaf
SeqHandle(s, i, acc) ==
  IF i > Len(s) THEN acc ELSE SeqHandle(s, i + 1, 100 * acc + Handle(s[i]))

\* backend(fn)(*vals, **opkw) on matrices
MatBackend(fn, vals, opkw) ==
  CASE fn = "matmul" ->
         LET ta == "True" \in {Kw(opkw, "transpose_a", "False"), Kw(opkw, "adjoint_a", "False")}
             tb == "True" \in {Kw(opkw, "transpose_b", "False"), Kw(opkw, "adjoint_b", "False")}
             a == IF ta THEN Transpose(vals[1].leaf) ELSE vals[1].leaf
             b == IF tb THEN Transpose(vals[2].leaf) ELSE vals[2].leaf
         IN IF Cols(a) = Rows(b) THEN MatV(MatMul(a, b)) ELSE Failure
    [] fn = "trace" ->
         LET off == Kw(opkw, "offset", "0")
             ax == <<Kw(opkw, "axis1", "0"), Kw(opkw, "axis2", "1")>>
             a == IF ax = <<"1", "0">> THEN Transpose(vals[1].leaf) ELSE vals[1].leaf
         IN IF off \notin {"-1", "0", "1"} \/ ax \notin {<<"0", "1">>, <<"1", "0">>}
              THEN Failure
              ELSE NumV(Diagonal(a, CASE off = "-1" -> -1 [] off = "0" -> 0 [] off = "1" -> 1, 1))
    [] fn = "matrix_transpose" -> MatV(Transpose(vals[1].leaf))

\* the multi-output operations and the number of arrays each returns for
\* one leaf: (U, S, Vh), (Q, R), (eigenvalues, eigenvectors),
\* (sign, logabsdet)
OutputArity == [svd |-> 3, qr |-> 2, eigh |-> 2, slogdet |-> 2]

\* the handle of the stub's result: it tells the arguments and their order
Stub(vals) == 100 * Handle(vals[1]) + (IF Len(vals) > 1 THEN Handle(vals[2]) ELSE 0)

\* backend(fn)(*vals, **opkw): the value returned, Failure when the backend
\* raises.  The stub returns a handle that tells the arguments and their
\* order; a multi-output operation returns a tuple of such handles, one
\* for each of its outputs.
Backend(fn, vals, opkw) ==
  IF fn = "identity" THEN vals[1]
  ELSE IF \A i \in 1..Len(vals) : vals[i].kind = "mat" THEN MatBackend(fn, vals, opkw)
  ELSE IF \E i \in 1..Len(vals) : vals[i].kind = "mat" \/ vals[i] = Singular THEN Failure
  ELSE IF fn \in DOMAIN OutputArity
    THEN TupleV([j \in 1..OutputArity[fn] |-> LeafV(10 * Stub(vals) + j)])
  ELSE LeafV(Stub(vals))

Deref(a, h) == IF a.isCont THEN ContV(h[a.ref]) ELSE LeafV(a.val)

\* the argument whose structure the traversal walks: the first positional
\* argument that is a Container (every call of the model has one)
Lead(vals) ==
  CHOOSE i \in 1..Len(vals) :
    vals[i].kind = "cont" /\ \A j \in 1..(i - 1) : vals[j].kind # "cont"

IsLeafKind(v, cfg) ==
  v.kind \in {"leaf", "mat", "num"} \/ (v.kind = "seq" /\ ~cfg.map_sequences)

\* the keyword arguments the backend receives at a leaf: a keyword
\* Container contributes its value there, any other keyword itself
LeafKwargs(opkw, kwc) ==
  [n \in DOMAIN opkw |-> IF n \in DOMAIN kwc THEN kwc[n].leaf ELSE opkw[n]]

\* the one element of a singleton set
Only(S) == CHOOSE x \in S : TRUE

\* what the traversal does at value v of the walked Container, at path p,
\* with args the positional arguments and kwc the keyword Containers at p;
\* result is what the backend yields when it is invoked there
Visit(fn, v, args, kwc, p, cfg, opkw) ==
  IF ~Selected(cfg, p)
    THEN [path |-> p, kind |-> IF cfg.prune_unapplied THEN "prune" ELSE "copy",
          leaves |-> <<v>>, kwargs |-> opkw, result |-> v]
  ELSE IF \/ \E j \in 1..Len(args) : ~IsLeafKind(args[j], cfg)
          \/ \E n \in DOMAIN kwc : ~IsLeafKind(kwc[n], cfg)
    THEN [path |-> p, kind |-> "mismatch", leaves |-> <<v>>, kwargs |-> opkw, result |-> Missing]
  ELSE Only({[path |-> p, kind |-> "apply", leaves |-> args, kwargs |-> k,
              result |-> Backend(fn, args, k)] : k \in {LeafKwargs(opkw, kwc)}})

RECURSIVE Visits(_, _, _, _, _, _, _, _, _)
RECURSIVE SeqVisits(_, _, _, _, _, _, _, _, _)
\* the leaves of the walked Container c (argument number lead of args) in
\* the order the traversal reaches them, each with what the traversal does
\* there: "apply" (invoke the backend), "copy" (excluded, value copied
\* through), "prune" (excluded, key omitted) or "mismatch" (an argument
\* Container has no leaf there)
Visits(fn, c, lead, args, kwc, path, cfg, opkw, i) ==
  IF i > Len(c) THEN <<>>
  ELSE LET e == c[i]
           p == Append(path, e.key)
           s == [j \in 1..Len(args) |-> Get(args[j], e.key)]
           k == [n \in DOMAIN kwc |-> Get(kwc[n], e.key)]
           here ==
             IF e.val.kind = "cont" THEN Visits(fn, e.val.sub, lead, s, k, p, cfg, opkw, 1)
             ELSE IF e.val.kind = "seq" /\ cfg.map_sequences
               THEN SeqVisits(fn, e.val.sub, lead, s, k, p, cfg, opkw, 1)
             ELSE <<Visit(fn, e.val, s, k, p, cfg, opkw)>>
       IN here \o Visits(fn, c, lead, args, kwc, path, cfg, opkw, i + 1)

\* the same over the elements of a sequence q, when map_sequences is set
SeqVisits(fn, q, lead, args, kwc, path, cfg, opkw, i) ==
  IF i > Len(q) THEN <<>>
  ELSE LET p == Append(path, IndexKey(i))
           s == [j \in 1..Len(args) |-> Elem(args[j], i)]
           k == [n \in DOMAIN kwc |-> Elem(kwc[n], i)]
           here ==
             IF q[i].kind = "cont" THEN Visits(fn, q[i].sub, lead, s, k, p, cfg, opkw, 1)
             ELSE IF q[i].kind = "seq"
               THEN SeqVisits(fn, q[i].sub, lead, s, k, p, cfg, opkw, 1)
             ELSE <<Visit(fn, q[i], s, k, p, cfg, opkw)>>
       IN here \o SeqVisits(fn, q, lead, args, kwc, path, cfg, opkw, i + 1)

\* what a leaf of the walked Container becomes in the result: <<>> when its
\* key is omitted, else the one value
MapLeaf(fn, v, args, kwc, p, cfg, opkw) ==
  Only({IF t.kind \in {"copy", "apply"} THEN <<t.result>> ELSE <<>> :
          t \in {Visit(fn, v, args, kwc, p, cfg, opkw)}})

RECURSIVE MapEntries_Reversed(_, _, _, _, _, _, _, _, _)
RECURSIVE MapSeq_Reversed(_, _, _, _, _, _, _, _, _)
\* MapEntries as it would be if it built each level of the result in the
\* reverse of the walked Container's order
MapEntries_Reversed(fn, c, lead, args, kwc, path, cfg, opkw, i) ==
  IF i > Len(c) THEN <<>>
  ELSE LET e == c[i]
           p == Append(path, e.key)
           s == [j \in 1..Len(args) |-> Get(args[j], e.key)]
           k == [n \in DOMAIN kwc |-> Get(kwc[n], e.key)]
           new ==
             IF e.val.kind = "cont"
               THEN <<ContV(MapEntries_Reversed(fn, e.val.sub, lead, s, k, p, cfg, opkw, 1))>>
             ELSE IF e.val.kind = "seq" /\ cfg.map_sequences
               THEN <<SeqV(MapSeq_Reversed(fn, e.val.sub, lead, s, k, p, cfg, opkw, 1))>>
             ELSE MapLeaf(fn, e.val, s, k, p, cfg, opkw)
           here == [x \in 1..Len(new) |-> Entry(e.key, new[x])]
       IN MapEntries_Reversed(fn, c, lead, args, kwc, path, cfg, opkw, i + 1) \o here

\* the same over the elements of a sequence q
MapSeq_Reversed(fn, q, lead, args, kwc, path, cfg, opkw, i) ==
  IF i > Len(q) THEN <<>>
  ELSE LET p == Append(path, IndexKey(i))
           s == [j \in 1..Len(args) |-> Elem(args[j], i)]
           k == [n \in DOMAIN kwc |-> Elem(kwc[n], i)]
           here ==
             IF q[i].kind = "cont"
               THEN <<ContV(MapEntries_Reversed(fn, q[i].sub, lead, s, k, p, cfg, opkw, 1))>>
             ELSE IF q[i].kind = "seq"
               THEN <<SeqV(MapSeq_Reversed(fn, q[i].sub, lead, s, k, p, cfg, opkw, 1))>>
             ELSE MapLeaf(fn, q[i], s, k, p, cfg, opkw)
       IN here \o MapSeq_Reversed(fn, q, lead, args, kwc, path, cfg, opkw, i + 1)

RECURSIVE MapEntries(_, _, _, _, _, _, _, _, _)
RECURSIVE MapSeq(_, _, _, _, _, _, _, _, _)
\* the result Container: the walked Container's entries in its order, a
\* nested Container mapped recursively, an applied leaf replaced by the
\* backend's result, an excluded leaf copied or pruned
MapEntries(fn, c, lead, args, kwc, path, cfg, opkw, i) ==
  IF i > Len(c) THEN <<>>
  ELSE LET e == c[i]
           p == Append(path, e.key)
           s == [j \in 1..Len(args) |-> Get(args[j], e.key)]
           k == [n \in DOMAIN kwc |-> Get(kwc[n], e.key)]
           new ==
             IF e.val.kind = "cont"
               THEN <<ContV(MapEntries(fn, e.val.sub, lead, s, k, p, cfg, opkw, 1))>>
             ELSE IF e.val.kind = "seq" /\ cfg.map_sequences
               THEN <<SeqV(MapSeq(fn, e.val.sub, lead, s, k, p, cfg, opkw, 1))>>
             ELSE MapLeaf(fn, e.val, s, k, p, cfg, opkw)
           here == [x \in 1..Len(new) |-> Entry(e.key, new[x])]
       IN here \o MapEntries(fn, c, lead, args, kwc, path, cfg, opkw, i + 1)

\* the same over the elements of a sequence q
MapSeq(fn, q, lead, args, kwc, path, cfg, opkw, i) ==
  IF i > Len(q) THEN <<>>
  ELSE LET p == Append(path, IndexKey(i))
           s == [j \in 1..Len(args) |-> Elem(args[j], i)]
           k == [n \in DOMAIN kwc |-> Elem(kwc[n], i)]
           here ==
             IF q[i].kind = "cont"
               THEN <<ContV(MapEntries(fn, q[i].sub, lead, s, k, p, cfg, opkw, 1))>>
             ELSE IF q[i].kind = "seq"
               THEN <<SeqV(MapSeq(fn, q[i].sub, lead, s, k, p, cfg, opkw, 1))>>
             ELSE MapLeaf(fn, q[i], s, k, p, cfg, opkw)
       IN here \o MapSeq(fn, q, lead, args, kwc, path, cfg, opkw, i + 1)

RECURSIVE WriteBack(_, _, _)
\* the output Container after the results of the applied visits vs[i..] are
\* written into its leaf slots, in place
WriteBack(outc, vs, i) ==
  IF i > Len(vs) THEN outc
  ELSE WriteBack(IF vs[i].kind = "apply" THEN SetAt(outc, vs[i].path, vs[i].result) ELSE outc,
                 vs, i + 1)

IsApply(v) == v.kind = "apply"

\* the backend raises at visit v
Fails(v) == v.kind = "apply" /\ v.result = Failure

RECURSIVE FirstBad_CatchesBackend(_, _, _)
\* FirstBad as it would be if the mapper caught the backend's errors and
\* went on to the next leaf
FirstBad_CatchesBackend(visits, cfg, i) ==
  IF i > Len(visits) THEN 0
  ELSE IF cfg.to_apply /\ visits[i].kind = "mismatch" THEN i
  ELSE FirstBad_CatchesBackend(visits, cfg, i + 1)

RECURSIVE FirstBad(_, _, _)
\* the first visit from i on at which the call halts, 0 when there is none
FirstBad(visits, cfg, i) ==
  IF i > Len(visits) THEN 0
  ELSE IF (cfg.to_apply /\ visits[i].kind = "mismatch") \/ Fails(visits[i]) THEN i
  ELSE FirstBad(visits, cfg, i + 1)

\* what the call yields once the traversal has made the visits and halted
\* at visit first (0: it did not halt)
Settle(fn, args, kwargs, h, cfg, walked, lead, vals, kwc, visits, first) ==
  LET raises == first # 0
      done == IF raises THEN SubSeq(visits, 1, first - 1) ELSE visits
      invoked == SelectSeq(IF raises /\ Fails(visits[first]) THEN SubSeq(visits, 1, first)
                           ELSE done,
                           IsApply)
      invs == [i \in 1..Len(invoked) |->
                 [fn |-> fn, path |-> invoked[i].path,
                  args |-> invoked[i].leaves, kwargs |-> invoked[i].kwargs]]
      this == [fn |-> fn, args |-> args, kwargs |-> kwargs]
      written == IF cfg.out = "None" THEN h
                 ELSE [h EXCEPT ![cfg.out] = WriteBack(h[cfg.out], done, 1)]
  IN IF raises
       THEN [status |-> "raised",
             err |-> IF Fails(visits[first]) THEN "BackendError" ELSE "KeyMismatchError",
             errpath |-> visits[first].path, ret |-> "", heap |-> written,
             mapper_calls |-> <<this>>, backend_calls |-> invs]
     ELSE IF cfg.out = "None"
       THEN [status |-> "returned", err |-> "", errpath |-> <<>>, ret |-> "ret",
             heap |-> [r \in (DOMAIN h) \cup {"ret"} |->
                         IF r = "ret"
                           THEN MapEntries(fn, walked, lead, vals, kwc, <<>>, cfg,
                                           OpKwargs(kwargs), 1)
                           ELSE h[r]],
             mapper_calls |-> <<this>>, backend_calls |-> invs]
     ELSE [status |-> "returned", err |-> "", errpath |-> <<>>, ret |-> cfg.out,
           heap |-> written, mapper_calls |-> <<this>>, backend_calls |-> invs]

\* one call cont_multi_map_in_function(fn, *args, **kwargs) on heap h:
\* [status, err, errpath, ret, heap, mapper_calls, backend_calls].  The
\* call halts at the first leaf where a Container argument has no leaf
\* (KeyMismatchError, when to_apply is set) or where the backend raises
\* (BackendError); the failing invocation is the last one made.
cont_multi_map_in_function(fn, args, kwargs, h) ==
  Only({Only({Settle(fn, args, kwargs, h, cfg, vals[lead].sub, lead, vals, kwc, visits,
                     FirstBad(visits, cfg, 1)) :
                visits \in {Visits(fn, vals[lead].sub, lead, vals, kwc, <<>>, cfg,
                                   OpKwargs(kwargs), 1)}}) :
          cfg \in {Config(kwargs)},
          kwc \in {KwConts(OpKwargs(kwargs), h)},
          vals \in {[i \in 1..Len(args) |-> Deref(args[i], h)]},
          lead \in {Lead([i \in 1..Len(args) |-> Deref(args[i], h)])}})

(***************************************************************************)
(* Calling a method of ContainerWithLinearAlgebra.                         *)
(***************************************************************************)
Raised(e, h) ==
  [status |-> "raised", err |-> e, errpath |-> <<>>, ret |-> "", heap |-> h,
   mapper_calls |-> <<>>, backend_calls |-> <<>>]

\* Python's argument binding: every parameter before "/" is positional-only
\* and required, every parameter after "*" is keyword-only with a default
BindsOk(m, pos, kw) ==
  /\ Len(pos) = Len(m.positional)
  /\ (DOMAIN kw) \subseteq (DOMAIN m.defaults)

Locals(m, pos, kw) ==
  [n \in Range(m.positional) \cup (DOMAIN m.defaults) |->
     IF n \in Range(m.positional)
       THEN pos[CHOOSE i \in 1..Len(pos) : m.positional[i] = n]
     ELSE IF n \in DOMAIN kw THEN kw[n]
     ELSE m.defaults[n]]

\* the positional and keyword arguments of the one call in the body of m
BodyArgs(m, l) == [i \in 1..Len(m.args) |-> l[m.args[i]]]
BodyKwargs(m, l) == [k \in DOMAIN m.kwargs |-> l[m.kwargs[k]]]

RECURSIVE Invoke_Translating(_, _, _, _, _)
\* Invoke as it would be if every method caught the errors of the call in
\* its body and raised an error of its own
Invoke_Translating(kind, name, pos, kw, h) ==
  LET table == IF kind = "static" THEN StaticMethods ELSE InstanceMethods
  IN IF name \notin DOMAIN table THEN Raised("AttributeError", h)
     ELSE LET m == table[name]
          IN IF ~BindsOk(m, pos, kw) THEN Raised("TypeError", h)
             ELSE LET l == Locals(m, pos, kw)
                      a == BodyArgs(m, l)
                      k == BodyKwargs(m, l)
                  IN IF m.target.kind = "mapper"
                       THEN LET o == cont_multi_map_in_function(m.fn, a, k, h)
                            IN IF o.status = "raised" THEN [o EXCEPT !.err = "Exception"] ELSE o
                     ELSE IF m.target.kind = "static"
                       THEN Invoke_Translating("static", m.target.name, a, k, h)
                     ELSE Invoke_Translating("instance", m.target.name, <<l["self"]>> \o a, k, h)

RECURSIVE Invoke_Copying(_, _, _, _, _)
\* Invoke as it would be if every static method returned a copy of the
\* Container the mapper returned
Invoke_Copying(kind, name, pos, kw, h) ==
  LET table == IF kind = "static" THEN StaticMethods ELSE InstanceMethods
  IN IF name \notin DOMAIN table THEN Raised("AttributeError", h)
     ELSE LET m == table[name]
          IN IF ~BindsOk(m, pos, kw) THEN Raised("TypeError", h)
             ELSE LET l == Locals(m, pos, kw)
                      a == BodyArgs(m, l)
                      k == BodyKwargs(m, l)
                  IN IF m.target.kind = "mapper"
                       THEN LET o == cont_multi_map_in_function(m.fn, a, k, h)
                            IN IF o.status = "raised" THEN o
                               ELSE [o EXCEPT !.ret = "copy",
                                              !.heap = [r \in (DOMAIN o.heap) \cup {"copy"} |->
                                                          o.heap[IF r = "copy" THEN o.ret ELSE r]]]
                     ELSE IF m.target.kind = "static"
                       THEN Invoke_Copying("static", m.target.name, a, k, h)
                     ELSE Invoke_Copying("instance", m.target.name, <<l["self"]>> \o a, k, h)

RECURSIVE Invoke(_, _, _, _, _)
\* the outcome of calling, on heap h,
\*   kind "static":   ContainerWithLinearAlgebra.static_<name>(*pos, **kw)
\*   kind "instance": ContainerWithLinearAlgebra.<name>(*pos, **kw), pos[1] = self
\*   kind "bound":    self.<name>(*pos, **kw) with self = pos[1] prepended by
\*                    the caller of Invoke
Invoke(kind, name, pos, kw, h) ==
  LET table == IF kind = "static" THEN StaticMethods ELSE InstanceMethods
  IN IF name \notin DOMAIN table THEN Raised("AttributeError", h)
     ELSE LET m == table[name]
          IN IF ~BindsOk(m, pos, kw) THEN Raised("TypeError", h)
             ELSE LET l == Locals(m, pos, kw)
                      a == BodyArgs(m, l)
                      k == BodyKwargs(m, l)
                  IN IF m.target.kind = "mapper"
                       THEN cont_multi_map_in_function(m.fn, a, k, h)
                     ELSE IF m.target.kind = "static"
                       THEN Invoke("static", m.target.name, a, k, h)
                     ELSE Invoke("instance", m.target.name, <<l["self"]>> \o a, k, h)


(***************************************************************************)
(* The user's inputs: the Containers on the heap and the arguments of the  *)
(* call.                                                                   *)
(***************************************************************************)
V(b, i) == LeafV(10 * b + i)
Flat1(b) == <<Entry("a", V(b, 1))>>
Flat2(b) == <<Entry("a", V(b, 1)), Entry("b", V(b, 2))>>
Flat2Rev(b) == <<Entry("b", V(b, 2)), Entry("a", V(b, 1))>>
Nested(b) ==
  <<Entry("a", V(b, 1)), Entry("b", ContV(<<Entry("c", V(b, 2)), Entry("d", V(b, 3))>>))>>
NestedRev(b) ==
  <<Entry("b", ContV(<<Entry("d", V(b, 3)), Entry("c", V(b, 2))>>)), Entry("a", V(b, 1))>>
NestedPart(b) == <<Entry("a", V(b, 1)), Entry("b", ContV(<<Entry("c", V(b, 2))>>))>>
Conts(b) ==
  {<<>>, Flat1(b), Flat2(b), Flat2Rev(b), Nested(b), NestedRev(b), NestedPart(b)}

PrimaryConts == UNION {Conts(b) : b \in 1..MaxBase}
SecondaryConts == Conts(MaxBase + 1)
\* an output Container has a leaf slot for every leaf of the primary
OutConts(c) ==
  {o \in {Flat2Rev(MaxBase + 2), NestedRev(MaxBase + 2)} : LeafPaths(c) \subseteq LeafPaths(o)}
PathUniverse == {<<"a">>, <<"b">>, <<"b", "c">>}
AllKeyChains == {NoKeyChains} \cup {KeyChains(S) : S \in SUBSET PathUniverse}

MkHeap(c1, twoConts, c2, o, oc) ==
  [r \in {"x1"} \cup (IF twoConts THEN {"x2"} ELSE {}) \cup (IF o = "out" THEN {"out"} ELSE {})
     |-> IF r = "x1" THEN c1 ELSE IF r = "x2" THEN c2 ELSE oc]

\* the keyword arguments a caller passes: the names G, a control parameter
\* with the value chosen for it, any other parameter with a value that
\* names it
MkKw(G, kc, ta, pu, ms, o) ==
  [n \in G |->
     CASE n = "key_chains" -> kc
       [] n = "to_apply" -> ta
       [] n = "prune_unapplied" -> pu
       [] n = "map_sequences" -> ms
       [] n = "out" -> o
       [] OTHER -> "<" \o n \o ">"]

(***************************************************************************)
(* Actions: one call of a public operation, from the user's call to the    *)
(* value returned or the exception raised.                                 *)
(***************************************************************************)
Outcome(form, name, pos, kw, h0) ==
  IF form = "mapper"
    THEN cont_multi_map_in_function(name, pos, kw, h0)
    ELSE Invoke(form, name, pos, kw, h0)

Do(form, name, pos, kw, h0) ==
  \E o \in {Outcome(form, name, pos, kw, h0)} :
    /\ call' = [form |-> form, op |-> name, pos |-> pos, kw |-> kw]
    /\ status' = o.status
    /\ err' = o.err
    /\ errpath' = o.errpath
    /\ ret' = o.ret
    /\ heap0' = h0
    /\ heap' = o.heap
    /\ mapper_calls' = o.mapper_calls
    /\ backend_calls' = o.backend_calls
    /\ UNCHANGED threads

Init ==
  /\ call = [form |-> "none", op |-> "", pos |-> <<>>, kw |-> <<>>]
  /\ status = "idle"
  /\ err = ""
  /\ errpath = <<>>
  /\ ret = ""
  /\ heap0 = <<>>
  /\ heap = <<>>
  /\ mapper_calls = <<>>
  /\ backend_calls = <<>>
  /\ threads = <<>>

\* the caller has taken the value or the exception of the call; the next
\* call starts from fresh inputs
Finish ==
  /\ status # "idle"
  /\ call' = [form |-> "none", op |-> "", pos |-> <<>>, kw |-> <<>>]
  /\ status' = "idle"
  /\ err' = ""
  /\ errpath' = <<>>
  /\ ret' = ""
  /\ heap0' = <<>>
  /\ heap' = <<>>
  /\ mapper_calls' = <<>>
  /\ backend_calls' = <<>>
  /\ UNCHANGED threads

\* a call of method m with at most MaxGiven keyword arguments, each of them
\* one m accepts or one of the five control parameters
Dispatch(form, op, m) ==
  /\ status = "idle"
  /\ \E b \in 1..MaxBase :
     \E second \in {Ref("x2"), Arr(7)} :
     \E G \in {S \in SUBSET ((DOMAIN m.defaults) \cup ControlNames) : Cardinality(S) <= MaxGiven} :
     \E kc \in (IF "key_chains" \in G THEN {NoKeyChains, KeyChains({<<"a">>})} ELSE {NoKeyChains}) :
     \E ta \in (IF "to_apply" \in G THEN BOOLEAN ELSE {TRUE}) :
     \E pu \in (IF "prune_unapplied" \in G THEN BOOLEAN ELSE {FALSE}) :
     \E ms \in (IF "map_sequences" \in G THEN BOOLEAN ELSE {FALSE}) :
     \E o \in (IF "out" \in G THEN {"None", "out"} ELSE {"None"}) :
       /\ Len(m.positional) = 1 => second = Ref("x2")
       /\ Do(form, op,
             IF Len(m.positional) = 1 THEN <<Ref("x1")>> ELSE <<Ref("x1"), second>>,
             MkKw(G, kc, ta, pu, ms, o),
             MkHeap(Nested(b), Len(m.positional) = 2 /\ second.isCont,
                    NestedRev(MaxBase + 1), o, NestedRev(MaxBase + 2)))

\* ivy.Container.static_<op>(x1[, x2], **kw)
StaticCall == \E op \in DOMAIN StaticMethods : Dispatch("static", op, StaticMethods[op])

\* x1.<op>([x2], **kw)
InstanceCall == \E op \in DOMAIN InstanceMethods : Dispatch("instance", op, InstanceMethods[op])

Next == StaticCall \/ InstanceCall \/ Finish

Spec == Init /\ [][Next]_vars

\* a call that reaches the mapper with every combination of Containers,
\* key chains, to_apply, prune_unapplied and out
Mapping(form, op, arity) ==
  /\ status = "idle"
  /\ \E c1 \in PrimaryConts :
     \E c2 \in (IF arity = 2 THEN SecondaryConts ELSE {<<>>}) :
     \E kc \in AllKeyChains :
     \E ta \in BOOLEAN :
     \E pu \in BOOLEAN :
     \E o \in {"None", "out"} :
     \E oc \in (IF o = "out" THEN OutConts(c1) ELSE {<<>>}) :
       Do(form, op,
          IF arity = 1 THEN <<Ref("x1")>> ELSE <<Ref("x1"), Ref("x2")>>,
          MkKw({"key_chains", "to_apply", "prune_unapplied", "out"}, kc, ta, pu, FALSE, o),
          MkHeap(c1, arity = 2, c2, o, oc))

StaticMapping == \E op \in {"matmul", "det"} : Mapping("static", op, Len(StaticMethods[op].positional))

InstanceMapping == \E op \in {"cross", "inv"} : Mapping("instance", op, Len(InstanceMethods[op].positional))

\* ContainerBase.cont_multi_map_in_function("identity", x1, **kw)
DirectMapping == Mapping("mapper", "identity", 1)

NextMapper == StaticMapping \/ InstanceMapping \/ DirectMapping \/ Finish

SpecMapper == Init /\ [][NextMapper]_vars

(***************************************************************************)
(* What the claims speak of.                                               *)
(***************************************************************************)
Finished == status # "idle"
Method(form, op) == IF form = "static" THEN StaticMethods[op] ELSE InstanceMethods[op]
\* the user's call is one Python accepts: the method binds its arguments
Accepted ==
  /\ call.form \in {"static", "instance"}
  /\ BindsOk(Method(call.form, call.op), call.pos, call.kw)

(***************************************************************************)
(* The dispatch layer (C1 - C4), under Spec.                               *)
(***************************************************************************)
\* C1: every public operation exists as a static form and as an instance
\* form, and an accepted call of either form ends in a call of
\* cont_multi_map_in_function (tensorsolve included).
C1_EveryOperationReachesMapper ==
  (Finished /\ Accepted) =>
    /\ call.op \in DOMAIN StaticMethods
    /\ call.op \in DOMAIN InstanceMethods
    /\ mapper_calls # <<>>

\* C2: an accepted call of a static method passes all five control
\* parameters to the mapper, each with the value the caller gave or, when
\* the caller gave none, the default of the method's signature.
C2_StaticPassesControlParameters ==
  (Finished /\ Accepted /\ call.form = "static") =>
    /\ mapper_calls # <<>>
    /\ \A n \in ControlNames :
         /\ n \in DOMAIN mapper_calls[1].kwargs
         /\ mapper_calls[1].kwargs[n] =
              (IF n \in DOMAIN call.kw THEN call.kw[n]
               ELSE StaticMethods[call.op].defaults[n])

\* C3: an accepted call of a public operation makes exactly one call of the
\* mapper, for every operation of the class.
C3_ExactlyOneMapperCall ==
  (Finished /\ Accepted) => Len(mapper_calls) = 1

\* C4: an accepted call x.op(*args, **kwargs) of an instance form issues a
\* mapper call, and it is the mapper call Container.static_op(x, *args,
\* **kwargs) issues: the same operation name, the same positional arguments
\* with x first, the same keyword values, the defaults of the two forms
\* included.
C4_InstanceIssuesStaticMapperCall ==
  (Finished /\ Accepted /\ call.form = "instance") =>
    /\ mapper_calls # <<>>
    /\ mapper_calls = Invoke("static", call.op, call.pos, call.kw, heap0).mapper_calls

(***************************************************************************)
(* The mapping engine reached through the public operations (C5 - C10),    *)
(* under SpecMapper.                                                       *)
(***************************************************************************)
\* the value the call means for control parameter n: the one the caller
\* passed, else the default
Control(n) ==
  IF n \in DOMAIN call.kw THEN call.kw[n]
  ELSE IF call.form # "mapper" /\ n \in DOMAIN Method(call.form, call.op).defaults
    THEN Method(call.form, call.op).defaults[n]
  ELSE MapperDefaults[n]

Primary == heap0[call.pos[1].ref]
Result == heap[ret]
ListedPaths == Control("key_chains").chains
\* the paths at which the backend ran, in order, and as a set
RanSeq == [i \in 1..Len(backend_calls) |-> backend_calls[i].path]
RanPaths == Range(RanSeq)
RECURSIVE Paired(_, _)
\* the value an argument v pairs with the primary's path: a Container is
\* looked up key by key, anything else is passed down as it is
Paired(v, path) == IF path = <<>> THEN v ELSE Paired(Get(v, Head(path)), Tail(path))
\* what positional argument i holds for path p
ArgAt(i, p) == Paired(Deref(call.pos[i], heap0), p)
\* every positional argument has a leaf for path p
SharedLeaf(p) == \A i \in 1..Len(call.pos) : ArgAt(i, p).kind = "leaf"
\* the leaf the backend operation of the call yields at path p
Expected(p) ==
  Backend(call.op, [i \in 1..Len(call.pos) |-> ArgAt(i, p)], OpKwargs(mapper_calls[1].kwargs))

\* C5: with to_apply=False, key chains P and prune_unapplied=False, every
\* leaf at a path in P is unmodified in the output (it holds the primary's
\* value in a new result, its prior value in a supplied out) and every leaf
\* at a path outside P that the arguments share holds the backend's result.
C5_ExclusionLeavesListedPaths ==
  (/\ status = "returned"
   /\ Control("key_chains").given
   /\ ~Control("to_apply")
   /\ ~Control("prune_unapplied")) =>
    \A p \in LeafPaths(Primary) :
      /\ p \in ListedPaths =>
           At(Result, p) = At(IF Control("out") = "None" THEN Primary
                              ELSE heap0[Control("out")], p)
      /\ (p \notin ListedPaths /\ SharedLeaf(p)) => At(Result, p) = Expected(p)

\* a call with to_apply=False that left a listed leaf alone and transformed
\* an unlisted one
C5_Witness ==
  /\ status = "returned"
  /\ call.form \in {"static", "instance"}
  /\ Control("key_chains").given
  /\ ~Control("to_apply")
  /\ ~Control("prune_unapplied")
  /\ \E p \in LeafPaths(Primary) \cap ListedPaths : At(Result, p) = At(Primary, p)
  /\ \E q \in LeafPaths(Primary) \ ListedPaths :
       SharedLeaf(q) /\ At(Result, q) = Expected(q) /\ At(Result, q) # At(Primary, q)

\* C6: with to_apply=True and key chains P the backend is invoked exactly
\* once at every leaf of the primary whose path is in P and at no other
\* leaf; with key_chains=None it is invoked exactly once at every leaf.
C6_ApplyOnlyAtListedPaths ==
  (status = "returned" /\ Control("to_apply")) =>
    /\ RanPaths = (IF Control("key_chains").given
                     THEN LeafPaths(Primary) \cap ListedPaths
                     ELSE LeafPaths(Primary))
    /\ Len(backend_calls) = Cardinality(RanPaths)

\* a call with to_apply=True and key chains that list one leaf of the
\* primary and not another
C6_Witness ==
  /\ status = "returned"
  /\ call.form \in {"static", "instance"}
  /\ Control("to_apply")
  /\ Control("key_chains").given
  /\ RanPaths # {}
  /\ LeafPaths(Primary) \ ListedPaths # {}
  /\ ListedPaths \ LeafPaths(Primary) # {}

\* C7: a call that builds a new result from arguments that share the
\* primary's leaves: with prune_unapplied=True the result has exactly the
\* paths at which the operation ran (every excluded path is absent); with
\* prune_unapplied=False it has every path of the primary, and every path at
\* which the operation did not run holds the primary's value.
C7_PruneUnapplied ==
  (/\ status = "returned"
   /\ Control("out") = "None"
   /\ \A p \in LeafPaths(Primary) : SharedLeaf(p)) =>
    IF Control("prune_unapplied")
      THEN LeafPaths(Result) = RanPaths
      ELSE /\ LeafPaths(Result) = LeafPaths(Primary)
           /\ \A p \in LeafPaths(Primary) \ RanPaths : At(Result, p) = At(Primary, p)

\* a call with prune_unapplied=True whose result lost an excluded path and
\* kept an applied one
C7_Witness ==
  /\ status = "returned"
  /\ call.form \in {"static", "instance"}
  /\ Control("out") = "None"
  /\ Control("prune_unapplied")
  /\ \A p \in LeafPaths(Primary) : SharedLeaf(p)
  /\ RanPaths # {}
  /\ LeafPaths(Primary) \ LeafPaths(Result) # {}

\* C8: when out is supplied the object returned is out itself, every path
\* at which the operation ran holds the backend's result in out, and every
\* other leaf of out holds the value it had before the call.
C8_OutWriteback ==
  (status = "returned" /\ Control("out") # "None") =>
    /\ ret = Control("out")
    /\ LeafPaths(heap[ret]) = LeafPaths(heap0[ret]) \cup RanPaths
    /\ \A p \in LeafPaths(heap[ret]) :
         At(heap[ret], p) = (IF p \in RanPaths THEN Expected(p) ELSE At(heap0[ret], p))

\* a call with out supplied that wrote one leaf of out and left another
C8_Witness ==
  /\ status = "returned"
  /\ call.form \in {"static", "instance"}
  /\ ret = "out"
  /\ \E p \in RanPaths : At(heap["out"], p) # At(heap0["out"], p)
  /\ \E q \in LeafPaths(heap0["out"]) \ RanPaths : At(heap["out"], q) = At(heap0["out"], q)

RECURSIVE Skeleton(_)
\* the keys of a Container in order, at every nesting level
Skeleton(c) ==
  [i \in 1..Len(c) |->
     [key |-> c[i].key,
      sub |-> IF c[i].val.kind = "cont" THEN Skeleton(c[i].val.sub) ELSE <<>>]]

\* C9: applying the identity operation through the mapper to a Container C
\* (no leaf pruned, no out) returns a Container with exactly the key paths
\* of C, in the same order at every nesting level.
C9_IdentityKeepsPathsAndOrder ==
  (/\ Finished
   /\ call.form = "mapper"
   /\ call.op = "identity"
   /\ Control("out") = "None"
   /\ ~(Control("prune_unapplied") /\ Control("key_chains").given)) =>
    /\ status = "returned"
    /\ LeafPaths(Result) = LeafPaths(Primary)
    /\ Skeleton(Result) = Skeleton(Primary)

\* the identity operation mapped over a nested Container whose keys are not
\* in sorted order
C9_Witness ==
  /\ status = "returned"
  /\ call.form = "mapper"
  /\ call.op = "identity"
  /\ Control("out") = "None"
  /\ ~Control("prune_unapplied")
  /\ Keys(Primary) = <<"b", "a">>
  /\ At(Primary, <<"b">>).kind = "cont"
  /\ Skeleton(Result) = Skeleton(Primary)
  /\ Len(backend_calls) = 3

\* C10: for Containers C1 and C2 with identical key-path sets (no key
\* chains), a binary operation returns, invokes the backend exactly once per
\* leaf path with the pair (C1[path], C2[path]) in that order, and, when it
\* builds a new result, the result's path set equals C1's.
C10_BinaryPairsLeaves ==
  (/\ Finished
   /\ Len(call.pos) = 2
   /\ call.pos[1].isCont
   /\ call.pos[2].isCont
   /\ LeafPaths(heap0[call.pos[1].ref]) = LeafPaths(heap0[call.pos[2].ref])
   /\ ~Control("key_chains").given) =>
    /\ status = "returned"
    /\ Len(backend_calls) = Cardinality(LeafPaths(Primary))
    /\ \A p \in LeafPaths(Primary) :
         \E i \in 1..Len(backend_calls) :
           /\ backend_calls[i].path = p
           /\ backend_calls[i].fn = call.op
           /\ backend_calls[i].args =
                <<At(heap0[call.pos[1].ref], p), At(heap0[call.pos[2].ref], p)>>
    /\ Control("out") = "None" => LeafPaths(Result) = LeafPaths(Primary)

\* a binary call on two nested Containers with the same paths in different
\* key order
C10_Witness ==
  /\ status = "returned"
  /\ Len(call.pos) = 2
  /\ ~Control("key_chains").given
  /\ Control("out") = "None"
  /\ LeafPaths(heap0["x1"]) = LeafPaths(heap0["x2"])
  /\ Keys(heap0["x1"]) # Keys(heap0["x2"])
  /\ Len(backend_calls) = 3
  /\ LeafPaths(Result) = LeafPaths(Primary)

(***************************************************************************)
(* Errors (C11 - C13).                                                     *)
(***************************************************************************)
\* the Selector of the call applies the operation at path p
SelectedPath(p) ==
  Selected([key_chains |-> Control("key_chains"), to_apply |-> Control("to_apply")], p)
\* the paths of the primary where the operation is to run and a positional
\* Container argument has no leaf
MissingPaths == {p \in LeafPaths(Primary) : SelectedPath(p) /\ ~SharedLeaf(p)}

Rejected(S) ==
  <<Entry("a", IF <<"a">> \in S THEN Singular ELSE V(1, 1)),
    Entry("b", ContV(<<Entry("c", IF <<"b", "c">> \in S THEN Singular ELSE V(1, 2)),
                       Entry("d", IF <<"b", "d">> \in S THEN Singular ELSE V(1, 3))>>))>>
RejectedConts == {Rejected(S) : S \in SUBSET {<<"a">>, <<"b", "c">>, <<"b", "d">>}}

\* a call of method m on a Container that may hold arrays the backend
\* rejects, with a second argument that may lack a path, and with any of
\* key_chains, to_apply and out given
Failing(form, op, m) ==
  /\ status = "idle"
  /\ \E c1 \in RejectedConts :
     \E second \in {Ref("x2"), Arr(7)} :
     \E c2 \in {NestedRev(MaxBase + 1), NestedPart(MaxBase + 1)} :
     \E G \in SUBSET {"key_chains", "to_apply", "out"} :
     \E kc \in (IF "key_chains" \in G
                  THEN {KeyChains({<<"a">>}), KeyChains({<<"b", "c">>, <<"b", "d">>})}
                  ELSE {NoKeyChains}) :
     \E ta \in (IF "to_apply" \in G THEN BOOLEAN ELSE {TRUE}) :
     \E o \in (IF "out" \in G THEN {"out"} ELSE {"None"}) :
       /\ Len(m.positional) = 1 => second = Ref("x2")
       /\ (Len(m.positional) = 1 \/ ~second.isCont) => c2 = NestedRev(MaxBase + 1)
       /\ Do(form, op,
             IF Len(m.positional) = 1 THEN <<Ref("x1")>> ELSE <<Ref("x1"), second>>,
             MkKw(G, kc, ta, FALSE, FALSE, o),
             MkHeap(c1, Len(m.positional) = 2 /\ second.isCont,
                    c2, o, NestedRev(MaxBase + 2)))

\* ivy.Container.static_<op>(x1[, x2], **kw)
FailingStaticCall == \E op \in DOMAIN StaticMethods : Failing("static", op, StaticMethods[op])

\* x1.<op>([x2], **kw)
FailingInstanceCall == \E op \in DOMAIN InstanceMethods : Failing("instance", op, InstanceMethods[op])

NextErrors == FailingStaticCall \/ FailingInstanceCall \/ Finish

SpecErrors == Init /\ [][NextErrors]_vars

\* the leaf invocations of the call at which the backend raised
FailedCalls ==
  {i \in 1..Len(backend_calls) :
     Backend(backend_calls[i].fn, backend_calls[i].args, backend_calls[i].kwargs) = Failure}

\* C12: if a leaf invocation fails, it is the last invocation of the call
\* (no later leaf is invoked), no path is invoked twice (no retry), the one
\* mapper call raises one error, for that leaf, and nothing is returned: no
\* reference, no result Container.
C12_FailureHaltsTheCall ==
  (Finished /\ FailedCalls # {}) =>
    /\ FailedCalls = {Len(backend_calls)}
    /\ \A i, j \in 1..Len(backend_calls) :
         backend_calls[i].path = backend_calls[j].path => i = j
    /\ Len(mapper_calls) = 1
    /\ status = "raised"
    /\ err = "BackendError"
    /\ errpath = backend_calls[Len(backend_calls)].path
    /\ ret = ""
    /\ "ret" \notin DOMAIN heap

\* a call that failed at its second leaf, with a third leaf it never
\* reached
C12_Witness ==
  /\ status = "raised"
  /\ err = "BackendError"
  /\ errpath = <<"b", "c">>
  /\ Len(backend_calls) = 2
  /\ At(heap0["x1"], <<"b", "d">>) # Singular
  /\ SelectedPath(<<"b", "d">>)

\* C13: an error the mapper or the backend raises during an accepted call of
\* a static or instance method reaches the caller as it was raised: the
\* method makes the one mapper call, and the caller sees the status, the
\* error and the path of that mapper call.
C13_ErrorsReachCallerUnchanged ==
  (Finished /\ Accepted /\ mapper_calls # <<>>) =>
    \A o \in {cont_multi_map_in_function(mapper_calls[1].fn, mapper_calls[1].args,
                                         mapper_calls[1].kwargs, heap0)} :
      o.status = "raised" =>
        /\ status = "raised"
        /\ err = o.err
        /\ errpath = o.errpath
        /\ ret = ""
        /\ Len(mapper_calls) = 1
        /\ backend_calls = o.backend_calls

\* x.inv() on a Container with a singular leaf: the BackendError of the
\* backend reached the caller through inv and static_inv
C13_Witness ==
  /\ status = "raised"
  /\ call.form = "instance"
  /\ call.op = "inv"
  /\ err = "BackendError"
  /\ errpath = <<"a">>
  /\ Len(mapper_calls) = 1

(***************************************************************************)
(* Arguments (C14 - C18).                                                  *)
(***************************************************************************)
\* C14: a positional argument that is not a Container reaches the backend
\* as the value the caller passed, in its own position, at every leaf of
\* the primary at which the operation runs.
C14_PlainArgumentBroadcast ==
  status = "returned" =>
    \A j \in 1..Len(call.pos) :
      ~call.pos[j].isCont =>
        /\ RanPaths = {p \in LeafPaths(Primary) : SelectedPath(p)}
        /\ \A i \in 1..Len(backend_calls) :
             backend_calls[i].args[j] = LeafV(call.pos[j].val)

\* x.matrix_power(7) on a Container of three leaves: three invocations,
\* each with 7 as its second argument
C14_Witness ==
  /\ status = "returned"
  /\ call.form = "instance"
  /\ call.op = "matrix_power"
  /\ call.pos[2] = Arr(7)
  /\ Len(backend_calls) = 3
  /\ \A i \in 1..3 : backend_calls[i].args = <<At(Primary, backend_calls[i].path), LeafV(7)>>

\* the static methods that take two positional arguments
BinaryOps == {op \in DOMAIN StaticMethods : Len(StaticMethods[op].positional) = 2}

\* ivy.Container.static_<op>(x, y, **kw) with x a plain array and y a
\* Container
ArrayFirstCall ==
  /\ status = "idle"
  /\ \E op \in BinaryOps :
     \E n \in {7, 8} :
     \E c2 \in PrimaryConts :
     \E G \in SUBSET {"key_chains", "prune_unapplied"} :
     \E kc \in (IF "key_chains" \in G THEN {KeyChains({<<"a">>})} ELSE {NoKeyChains}) :
     \E pu \in (IF "prune_unapplied" \in G THEN {TRUE} ELSE {FALSE}) :
       Do("static", op, <<Arr(n), Ref("x2")>>, MkKw(G, kc, TRUE, pu, FALSE, "None"),
          [r \in {"x2"} |-> c2])

RECURSIVE KwLike(_, _)
\* a keyword Container for keyword n with the key structure of c: its leaf
\* at a path is a value that names the keyword and the path
KwLike(c, n) ==
  [i \in 1..Len(c) |->
     Entry(c[i].key,
           IF c[i].val.kind = "cont" THEN ContV(KwLike(c[i].val.sub, n \o "." \o c[i].key))
           ELSE LeafV(n \o "." \o c[i].key))]

\* a call of matrix_norm (either form) whose keywords ord, axis and keepdims
\* are plain values or Containers with the key paths of x
KeywordContainerCall ==
  /\ status = "idle"
  /\ \E form \in {"static", "instance"} :
     \E c1 \in PrimaryConts :
     \E G \in SUBSET {"ord", "axis", "keepdims"} :
     \E C \in SUBSET G :
       Do(form, "matrix_norm", <<Ref("x1")>>,
          [n \in G |-> IF n \in C THEN "kw_" \o n ELSE "<" \o n \o ">"],
          [r \in {"x1"} \cup {"kw_" \o n : n \in C} |->
             IF r = "x1" THEN c1
             ELSE KwLike(c1, CHOOSE n \in C : r = "kw_" \o n)])

\* Containers that hold sequences (lists) of arrays
SeqConts(b) ==
  {<<Entry("a", SeqV(<<V(b, 1), V(b, 2)>>))>>,
   <<Entry("a", V(b, 1)), Entry("b", SeqV(<<V(b, 2), V(b, 3)>>))>>,
   <<Entry("a", SeqV(<<V(b, 1)>>)),
     Entry("b", ContV(<<Entry("c", SeqV(<<V(b, 2), V(b, 3), V(b, 4)>>)), Entry("d", V(b, 5))>>))>>}

\* the methods that take one positional argument
UnaryOps == {op \in DOMAIN StaticMethods : Len(StaticMethods[op].positional) = 1}

\* a call of a unary method (either form) on a Container that holds
\* sequences, with map_sequences given or left to its default
SequenceCall ==
  /\ status = "idle"
  /\ \E form \in {"static", "instance"} :
     \E op \in UnaryOps :
     \E b \in 1..MaxBase :
     \E c1 \in SeqConts(b) :
     \E G \in SUBSET {"map_sequences"} :
     \E ms \in (IF "map_sequences" \in G THEN BOOLEAN ELSE {FALSE}) :
       Do(form, op, <<Ref("x1")>>, MkKw(G, NoKeyChains, TRUE, FALSE, ms, "None"),
          [r \in {"x1"} |-> c1])

NextArguments == ArrayFirstCall \/ KeywordContainerCall \/ SequenceCall \/ Finish

SpecArguments == Init /\ [][NextArguments]_vars

OpNames(m) == (DOMAIN m.defaults) \ ControlNames
\* the value the call means for keyword parameter n of its method
Meant(n) ==
  IF n \in DOMAIN call.kw THEN call.kw[n] ELSE Method(call.form, call.op).defaults[n]

\* C16: an accepted call forwards every operation-specific keyword
\* parameter of its method to the mapper under the parameter's name with
\* the value the caller gave (the signature's default when the caller gave
\* none), and every leaf invocation of the backend receives that value
\* under that name.
C16_OperationKeywordsForwarded ==
  (Finished /\ Accepted) =>
    /\ mapper_calls # <<>>
    /\ \A n \in OpNames(Method(call.form, call.op)) :
         /\ n \in DOMAIN mapper_calls[1].kwargs
         /\ mapper_calls[1].kwargs[n] = Meant(n)
         /\ \A i \in 1..Len(backend_calls) :
              /\ n \in DOMAIN backend_calls[i].kwargs
              /\ backend_calls[i].kwargs[n] = Meant(n)

\* the operation keywords of the call whose value is a Container
KeywordConts == {n \in (DOMAIN call.kw) \ ControlNames : call.kw[n] \in DOMAIN heap0}

SeqPaths == {p \in LeafPaths(Primary) : At(Primary, p).kind = "seq"}
\* the leaf invocations made at path p
CallsAt(p) == {i \in 1..Len(backend_calls) : backend_calls[i].path = p}

\* C18: for a sequence held in the Container of a unary call: with
\* map_sequences=True the backend is invoked once for every element, with
\* that element, and never with the sequence, and the result holds the
\* sequence of the elements' results; with map_sequences=False (the
\* default) the backend is invoked once with the whole sequence, never with
\* an element, and the result holds what that one invocation yields.
C18_MapSequences ==
  (status = "returned" /\ Len(call.pos) = 1 /\ call.pos[1].isCont) =>
    \A p \in SeqPaths :
      IF Control("map_sequences")
        THEN /\ CallsAt(p) = {}
             /\ \A j \in 1..Len(At(Primary, p).sub) :
                  /\ Cardinality(CallsAt(Append(p, IndexKey(j)))) = 1
                  /\ \A i \in CallsAt(Append(p, IndexKey(j))) :
                       backend_calls[i].args = <<At(Primary, p).sub[j]>>
             /\ At(Result, p) =
                  SeqV([j \in 1..Len(At(Primary, p).sub) |->
                          Backend(call.op, <<At(Primary, p).sub[j]>>,
                                  OpKwargs(mapper_calls[1].kwargs))])
        ELSE /\ Cardinality(CallsAt(p)) = 1
             /\ \A i \in CallsAt(p) : backend_calls[i].args = <<At(Primary, p)>>
             /\ \A j \in 1..Len(At(Primary, p).sub) : CallsAt(Append(p, IndexKey(j))) = {}
             /\ At(Result, p) =
                  Backend(call.op, <<At(Primary, p)>>, OpKwargs(mapper_calls[1].kwargs))

\* x.inv(map_sequences=True) on {a: [.], b: {c: [., ., .], d: .}}: one
\* invocation per element and one for d
C18_Witness ==
  /\ status = "returned"
  /\ call.form = "instance"
  /\ call.op = "inv"
  /\ Control("map_sequences")
  /\ SeqPaths = {<<"a">>, <<"b", "c">>}
  /\ RanSeq = << <<"a", "0">>, <<"b", "c", "0">>, <<"b", "c", "1">>, <<"b", "c", "2">>, <<"b", "d">> >>
  /\ At(Result, <<"b", "c">>).kind = "seq"
  /\ Len(At(Result, <<"b", "c">>).sub) = 3

(***************************************************************************)
(* Scenarios on matrices (C19, C20), under SpecScenarios.                  *)
(***************************************************************************)
Matrices ==
  {<< <<3, -1>>, <<-1, 3>> >>,
   << <<2, 1>>, <<1, 1>> >>,
   << <<0, 1>>, <<2, 3>> >>,
   << <<1, 2, 3>>, <<4, 5, 6>> >>,
   << <<7, 1, 2>>, <<1, 3, 5>>, <<0, 7, 4>> >>,
   << <<4, 3, 2>>, <<1, 9, 5>>, <<7, 0, 6>> >>}

\* the Containers {a: m1, b: m2}
MatrixConts == {<<Entry("a", MatV(m1)), Entry("b", MatV(m2))>> : m1, m2 \in Matrices}

\* static_matmul(x, y) or x.matmul(y), y being x itself or another Container
MatmulCall ==
  /\ status = "idle"
  /\ \E form \in {"static", "instance"} :
     \E c1 \in MatrixConts :
     \E second \in {Ref("x1"), Ref("x2")} :
     \E c2 \in (IF second = Ref("x2") THEN MatrixConts ELSE {<<>>}) :
       Do(form, "matmul", <<Ref("x1"), second>>, <<>>,
          MkHeap(c1, second = Ref("x2"), c2, "None", <<>>))

\* static_trace(x, **kw) or x.trace(**kw)
TraceCall ==
  /\ status = "idle"
  /\ \E form \in {"static", "instance"} :
     \E c1 \in MatrixConts :
     \E kw \in {<<>>, [offset |-> "1"], [offset |-> "-1"], [axis1 |-> "1", axis2 |-> "0"],
                [offset |-> "1", axis1 |-> "1", axis2 |-> "0"]} :
       Do(form, "trace", <<Ref("x1")>>, kw, MkHeap(c1, FALSE, <<>>, "None", <<>>))

NextScenarios == MatmulCall \/ TraceCall \/ Finish

SpecScenarios == Init /\ [][NextScenarios]_vars

\* C19: matmul of x = {a: [[3,-1],[-1,3]], b: [[2,1],[1,1]]} with itself,
\* through static_matmul(x, x) or x.matmul(x), returns
\* {a: [[10,-6],[-6,10]], b: [[5,3],[3,2]]}; for any x and y = {a, b} whose
\* leaves have matching shapes the result has the keys a, b in that order and
\* each leaf is the matrix product of x's and y's leaves at that key, in
\* that order.
C19_MatmulScenario ==
  (Finished /\ call.op = "matmul") =>
    /\ (/\ heap0[call.pos[1].ref] =
             <<Entry("a", MatV(<< <<3, -1>>, <<-1, 3>> >>)),
               Entry("b", MatV(<< <<2, 1>>, <<1, 1>> >>))>>
        /\ heap0[call.pos[2].ref] = heap0[call.pos[1].ref]) =>
          /\ status = "returned"
          /\ Result = <<Entry("a", MatV(<< <<10, -6>>, <<-6, 10>> >>)),
                        Entry("b", MatV(<< <<5, 3>>, <<3, 2>> >>))>>
    /\ status = "returned" =>
         /\ Keys(Result) = <<"a", "b">>
         /\ \A k \in {"a", "b"} :
              At(Result, <<k>>) =
                MatV(MatMul(At(heap0[call.pos[1].ref], <<k>>).leaf,
                            At(heap0[call.pos[2].ref], <<k>>).leaf))

\* x.matmul(x) on the Container of the scenario
C19_Witness ==
  /\ status = "returned"
  /\ call.form = "instance"
  /\ call.op = "matmul"
  /\ call.pos = <<Ref("x1"), Ref("x1")>>
  /\ heap0["x1"] = <<Entry("a", MatV(<< <<3, -1>>, <<-1, 3>> >>)),
                     Entry("b", MatV(<< <<2, 1>>, <<1, 1>> >>))>>
  /\ Result = <<Entry("a", MatV(<< <<10, -6>>, <<-6, 10>> >>)),
                Entry("b", MatV(<< <<5, 3>>, <<3, 2>> >>))>>

\* C20: trace of {a: [[7,1,2],[1,3,5],[0,7,4]], b: [[4,3,2],[1,9,5],[7,0,6]]}
\* with no keyword given (offset=0, axis1=0, axis2=1) returns {a: 14, b: 19};
\* for any x = {a, b} each leaf of the result is the sum of the main
\* diagonal of x's matrix at that key.
C20_TraceScenario ==
  (Finished /\ call.op = "trace" /\ call.kw = <<>>) =>
    /\ status = "returned"
    /\ mapper_calls[1].kwargs["offset"] = "0"
    /\ mapper_calls[1].kwargs["axis1"] = "0"
    /\ mapper_calls[1].kwargs["axis2"] = "1"
    /\ heap0["x1"] = <<Entry("a", MatV(<< <<7, 1, 2>>, <<1, 3, 5>>, <<0, 7, 4>> >>)),
                       Entry("b", MatV(<< <<4, 3, 2>>, <<1, 9, 5>>, <<7, 0, 6>> >>))>>
         => Result = <<Entry("a", NumV(14)), Entry("b", NumV(19))>>
    /\ Keys(Result) = <<"a", "b">>
    /\ \A k \in {"a", "b"} :
         At(Result, <<k>>) = NumV(Diagonal(At(heap0["x1"], <<k>>).leaf, 0, 1))

\* static_trace(x) on the Container of the scenario
C20_Witness ==
  /\ status = "returned"
  /\ call.form = "static"
  /\ call.op = "trace"
  /\ call.kw = <<>>
  /\ heap0["x1"] = <<Entry("a", MatV(<< <<7, 1, 2>>, <<1, 3, 5>>, <<0, 7, 4>> >>)),
                     Entry("b", MatV(<< <<4, 3, 2>>, <<1, 9, 5>>, <<7, 0, 6>> >>))>>
  /\ Result = <<Entry("a", NumV(14)), Entry("b", NumV(19))>>

C22_NoInstanceMethodCallsItself ==
  (Finished /\ call.form = "instance" /\ Accepted) =>
    /\ status \in {"returned", "raised"}
    /\ InstanceMethods[call.op].target # [kind |-> "bound", name |-> call.op]
    /\ InstanceMethods[call.op].target.kind = "static"
    /\ InstanceMethods[call.op].target.name \in DOMAIN StaticMethods
    /\ StaticMethods[InstanceMethods[call.op].target.name].target.kind = "mapper"
    /\ Len(mapper_calls) = 1

(***************************************************************************)
(* Tie-breaks of the traversal (C23, C24), under SpecMapper.               *)
(***************************************************************************)
\* the leaf paths the secondary Container of a binary call has and the
\* primary has not
ExtraPaths ==
  IF Len(call.pos) = 2 /\ call.pos[2].isCont
    THEN LeafPaths(heap0[call.pos[2].ref]) \ LeafPaths(Primary)
    ELSE {}

\* C23: a key path that only the secondary Container has is never a path
\* of a backend invocation and never appears in the result: a new result
\* has no leaf there, a supplied out keeps what it held there.
C23_ExtraSecondaryKeysIgnored ==
  Finished =>
    \A p \in ExtraPaths :
      /\ p \notin RanPaths
      /\ status = "returned" =>
           IF Control("out") = "None" THEN p \notin LeafPaths(Result)
           ELSE p \in LeafPaths(Result) =>
                  /\ p \in LeafPaths(heap0[ret])
                  /\ At(Result, p) = At(heap0[ret], p)

\* x1.cross(x2) with x2 holding a leaf b that x1 lacks: the operation ran
\* at a only and the result has no b
C23_Witness ==
  /\ status = "returned"
  /\ call.form = "instance"
  /\ call.op = "cross"
  /\ ret = "ret"
  /\ <<"b">> \in ExtraPaths
  /\ RanPaths = {<<"a">>}
  /\ LeafPaths(Result) = {<<"a">>}

\* C24: an operation applied to a completely empty Container returns with
\* no backend invocation; the Container it builds is empty, and when out is
\* supplied nothing is written and out is returned as it was.
C24_EmptyContainerMapsToEmpty ==
  (Finished /\ Primary = <<>>) =>
    /\ status = "returned"
    /\ backend_calls = <<>>
    /\ IF Control("out") = "None"
         THEN ret = "ret" /\ Result = <<>>
         ELSE ret = Control("out") /\ Result = heap0[ret]

\* static_matmul(x1, x2) with x1 empty and x2 holding leaves returned a new
\* empty Container
C24_Witness ==
  /\ status = "returned"
  /\ call.form = "static"
  /\ call.op = "matmul"
  /\ Primary = <<>>
  /\ heap0["x2"] # <<>>
  /\ ret = "ret"
  /\ Result = <<>>
  /\ backend_calls = <<>>

(***************************************************************************)
(* The frame of a call (C25), under Spec.                                  *)
(***************************************************************************)
\* C25: a call, whether it returns or raises, leaves every Container it
\* was given unchanged in keys, order and leaf values, except the one the
\* caller supplied through out; the only object it adds is its result.
C25_InputsUnchanged ==
  Finished =>
    /\ DOMAIN heap0 \subseteq DOMAIN heap
    /\ DOMAIN heap \subseteq (DOMAIN heap0) \cup {"ret"}
    /\ \A r \in DOMAIN heap0 :
         ("out" \notin DOMAIN call.kw \/ r # call.kw["out"]) => heap[r] = heap0[r]

\* x1.matmul(x2, out=out) wrote its results into out and left x1 and x2 as
\* they were
C25_Witness ==
  /\ status = "returned"
  /\ call.form = "instance"
  /\ call.op = "matmul"
  /\ "out" \in DOMAIN call.kw
  /\ call.kw["out"] = "out"
  /\ heap["out"] # heap0["out"]
  /\ Len(backend_calls) = Len(LeafPathSeq(heap0["x1"], <<>>, 1))
  /\ heap["x1"] = heap0["x1"]
  /\ heap["x2"] = heap0["x2"]

(***************************************************************************)
(* Concurrent calls (C26), under SpecConcurrent.  The mapper is            *)
(* single-threaded and takes no lock: two callers that run it at the same  *)
(* time on one heap interleave at the leaves.  A thread is one call, with  *)
(* the mapper call its wrapper issued (mc), the number of the leaf it      *)
(* visits next (pc), the Container it is building when it has no out       *)
(* (acc), the leaf invocations it has made (calls) and how it ended.       *)
(***************************************************************************)
\* the calls a thread makes: the mapper directly, a static and an instance
\* wrapper
ThreadCalls ==
  {[form |-> "mapper", op |-> "matmul"], [form |-> "static", op |-> "matmul"],
   [form |-> "instance", op |-> "cross"]}

\* a thread about to start the call c(*pos, out=o)
Thread(c, pos, o, h) ==
  Only({[call |-> [form |-> c.form, op |-> c.op, pos |-> pos, kw |-> kw],
         mc |-> Outcome(c.form, c.op, pos, kw, h).mapper_calls[1],
         pc |-> 1, acc |-> <<>>, calls |-> <<>>, status |-> "running", err |-> "", ret |-> ""] :
          kw \in {MkKw(IF o = "None" THEN {} ELSE {"out"}, NoKeyChains, TRUE, FALSE, FALSE, o)}})

\* the leaves mapper call mc visits on heap h, in order
Walk(mc, h) ==
  Only({Visits(mc.fn, vals[Lead(vals)].sub, Lead(vals), vals, KwConts(OpKwargs(mc.kwargs), h),
               <<>>, Config(mc.kwargs), OpKwargs(mc.kwargs), 1) :
          vals \in {[i \in 1..Len(mc.args) |-> Deref(mc.args[i], h)]}})

\* two callers start a call each on the same two Containers, the second
\* caller with either of them as the primary; each writes into out1, into
\* out2 or into a new Container
Begin ==
  /\ status = "idle"
  /\ threads = <<>>
  /\ \E b \in 1..MaxBase :
     \E c2 \in {NestedRev(MaxBase + 1), NestedPart(MaxBase + 1), Nested(0)} :
     \E ca \in ThreadCalls, cb \in ThreadCalls :
     \E oa \in {"None", "out1"}, ob \in {"None", "out1", "out2"} :
     \E pb \in {<<Ref("x1"), Ref("x2")>>, <<Ref("x2"), Ref("x1")>>} :
     \E h \in {[r \in {"x1", "x2", "out1", "out2"} |->
                  CASE r = "x1" -> Nested(b)
                    [] r = "x2" -> c2
                    [] r = "out1" -> NestedRev(MaxBase + 2)
                    [] r = "out2" -> NestedRev(MaxBase + 3)]} :
       /\ heap0' = h
       /\ heap' = h
       /\ threads' = <<Thread(ca, <<Ref("x1"), Ref("x2")>>, oa, h), Thread(cb, pb, ob, h)>>
  /\ UNCHANGED <<call, status, err, errpath, ret, mapper_calls, backend_calls>>

\* thread t visits its next leaf: it reads the leaves of its arguments from
\* the heap as it is now, invokes the backend and writes the result into
\* its out, or into the Container it is building; it raises where a single
\* call would
Step(t) ==
  /\ t \in DOMAIN threads
  /\ threads[t].status = "running"
  /\ \E th \in {threads[t]} :
     \E cfg \in {Config(threads[t].mc.kwargs)} :
     \E vs \in {Walk(threads[t].mc, heap)} :
       /\ th.pc <= Len(vs)
       /\ \E v \in {vs[th.pc]} :
          \E made \in {[fn |-> th.mc.fn, path |-> v.path, args |-> v.leaves, kwargs |-> v.kwargs]} :
            IF cfg.to_apply /\ v.kind = "mismatch"
              THEN /\ threads' = [threads EXCEPT ![t] =
                                    [th EXCEPT !.status = "raised", !.err = "KeyMismatchError"]]
                   /\ UNCHANGED <<heap, backend_calls>>
            ELSE IF Fails(v)
              THEN /\ threads' = [threads EXCEPT ![t] =
                                    [th EXCEPT !.status = "raised", !.err = "BackendError",
                                               !.calls = Append(@, made)]]
                   /\ backend_calls' = Append(backend_calls, made)
                   /\ UNCHANGED heap
            ELSE /\ threads' = [threads EXCEPT ![t] =
                                  [th EXCEPT !.pc = @ + 1,
                                             !.calls = IF IsApply(v) THEN Append(@, made) ELSE @,
                                             !.acc = IF cfg.out = "None" /\ v.kind # "prune"
                                                       THEN SetAt(@, v.path, v.result) ELSE @]]
                 /\ backend_calls' = IF IsApply(v) THEN Append(backend_calls, made)
                                     ELSE backend_calls
                 /\ heap' = IF cfg.out # "None" /\ IsApply(v)
                              THEN [heap EXCEPT ![cfg.out] = SetAt(@, v.path, v.result)]
                              ELSE heap
  /\ UNCHANGED <<call, status, err, errpath, ret, heap0, mapper_calls>>

\* thread t has visited every leaf: its call returns out, or the Container
\* it built
Return(t) ==
  /\ t \in DOMAIN threads
  /\ threads[t].status = "running"
  /\ threads[t].pc > Len(Walk(threads[t].mc, heap))
  /\ threads' = [threads EXCEPT ![t].status = "returned",
                                ![t].ret = IF Config(threads[t].mc.kwargs).out = "None"
                                             THEN "ret" ELSE Config(threads[t].mc.kwargs).out]
  /\ UNCHANGED <<call, status, err, errpath, ret, heap0, heap, mapper_calls, backend_calls>>

\* both callers have their results; the next pair starts from fresh inputs
Join ==
  /\ threads # <<>>
  /\ \A t \in DOMAIN threads : threads[t].status # "running"
  /\ threads' = <<>>
  /\ heap0' = <<>>
  /\ heap' = <<>>
  /\ backend_calls' = <<>>
  /\ UNCHANGED <<call, status, err, errpath, ret, mapper_calls>>

NextConcurrent == Begin \/ (\E t \in {1, 2} : Step(t)) \/ (\E t \in {1, 2} : Return(t)) \/ Join

SpecConcurrent == Init /\ [][NextConcurrent]_vars

\* what the call of thread t yields when it runs alone on the heap the two
\* calls started from
Alone(t) ==
  Outcome(threads[t].call.form, threads[t].call.op, threads[t].call.pos, threads[t].call.kw, heap0)

\* the out a thread was given ("None" if none)
OutOf(t) == IF "out" \in DOMAIN threads[t].call.kw THEN threads[t].call.kw["out"] ELSE "None"

\* C26: of two calls that run concurrently on the same inputs and write to
\* different outs, or to none, each ends as it would alone, under every
\* interleaving of their leaf invocations: the same return or error, the
\* same leaf invocations in the same order, and the same Container (the
\* one returned, or what was written into out before the error).
C26_ConcurrentCallsAsAlone ==
  (threads # <<>> /\ (OutOf(1) = "None" \/ OutOf(2) = "None" \/ OutOf(1) # OutOf(2))) =>
    \A t \in DOMAIN threads :
      threads[t].status # "running" =>
        \E a \in {Alone(t)} :
          /\ threads[t].status = a.status
          /\ threads[t].err = a.err
          /\ threads[t].calls = a.backend_calls
          /\ threads[t].ret = a.ret
          /\ a.ret = "ret" => threads[t].acc = a.heap["ret"]
          /\ OutOf(t) # "None" => heap[OutOf(t)] = a.heap[OutOf(t)]
          /\ \A r \in {"x1", "x2"} : heap[r] = heap0[r]

\* both calls returned, one into out1 and one a new Container, after leaf
\* invocations that alternated between the two
C26_Witness ==
  /\ threads # <<>>
  /\ threads[1].status = "returned"
  /\ threads[2].status = "returned"
  /\ OutOf(1) = "out1"
  /\ OutOf(2) = "None"
  /\ threads[1].mc.fn # threads[2].mc.fn
  /\ Len(backend_calls) = 6
  /\ \A i \in 1..5 : backend_calls[i].fn # backend_calls[i + 1].fn
  /\ heap["out1"] # heap0["out1"]
  /\ threads[2].acc # <<>>

(***************************************************************************)
(* What the wrappers hand to the mapper and hand back (C27 - C29), under   *)
(* Spec.                                                                   *)
(***************************************************************************)
\* C27: there are 27 static methods, and an accepted call of static_<op>
\* gives the mapper the operation name <op>, the method's name without the
\* static_ prefix; every leaf invocation the call makes is of that
\* operation.
C27_StaticNamesItsOwnOperation ==
  /\ Cardinality(DOMAIN StaticMethods) = 27
  /\ (Finished /\ call.form = "static" /\ Accepted) =>
       /\ Len(mapper_calls) = 1
       /\ mapper_calls[1].fn = call.op
       /\ \A i \in 1..Len(backend_calls) : backend_calls[i].fn = call.op

\* static_diag(x) ran the operation diag at the leaves of x
C27_Witness ==
  /\ status = "returned"
  /\ call.form = "static"
  /\ call.op = "diag"
  /\ mapper_calls[1].fn = "diag"
  /\ Len(backend_calls) = Len(LeafPathSeq(Primary, <<>>, 1))
  /\ backend_calls[1].fn = "diag"

\* C28: an accepted call of a binary method passes its two positional
\* arguments on in the order it received them (x1 before x2, self before
\* x2): every mapper call it issues has the caller's arguments in the
\* caller's order, and every leaf invocation has the leaf of the first
\* argument before the leaf of the second.
C28_PositionalOrderPreserved ==
  (Finished /\ Accepted /\ Len(call.pos) = 2) =>
    /\ Method(call.form, call.op).args = Method(call.form, call.op).positional
    /\ \A i \in 1..Len(mapper_calls) : mapper_calls[i].args = call.pos
    /\ \A i \in 1..Len(backend_calls) :
         backend_calls[i].args = <<ArgAt(1, backend_calls[i].path), ArgAt(2, backend_calls[i].path)>>

\* x1.solve(x2) invoked solve at leaf a with the leaf of x1 first and the
\* leaf of x2, a different array, second
C28_Witness ==
  /\ status = "returned"
  /\ call.form = "instance"
  /\ call.op = "solve"
  /\ call.pos = <<Ref("x1"), Ref("x2")>>
  /\ mapper_calls[1].args = <<Ref("x1"), Ref("x2")>>
  /\ backend_calls[1].path = <<"a">>
  /\ backend_calls[1].args = <<At(heap0["x1"], <<"a">>), At(heap0["x2"], <<"a">>)>>
  /\ At(heap0["x1"], <<"a">>) # At(heap0["x2"], <<"a">>)

\* C29: an accepted call that reaches the mapper ends exactly as its
\* mapper call ends: it returns the very object the mapper returned (the
\* same reference, holding the same Container), or raises the mapper's
\* error, and the heap is as the mapper left it.
C29_ReturnsMapperValue ==
  (Finished /\ Accepted /\ mapper_calls # <<>>) =>
    \E o \in {cont_multi_map_in_function(mapper_calls[1].fn, mapper_calls[1].args,
                                         mapper_calls[1].kwargs, heap0)} :
      /\ status = o.status
      /\ ret = o.ret
      /\ err = o.err
      /\ errpath = o.errpath
      /\ heap = o.heap

\* x.svdvals() returned the new Container of the mapper, with the results
\* of the backend at its leaves
C29_Witness ==
  /\ status = "returned"
  /\ call.form = "instance"
  /\ call.op = "svdvals"
  /\ ret = "ret"
  /\ mapper_calls[1].fn = "svdvals"
  /\ LeafPathSeq(Result, <<>>, 1) = LeafPathSeq(Primary, <<>>, 1)
  /\ \A p \in LeafPaths(Result) : At(Result, p) = Expected(p)

(***************************************************************************)
(* Static and instance signatures (C30), under Spec.                       *)
(***************************************************************************)
\* C30: for every static/instance pair, a call of the instance form with
\* keyword arguments its static form accepts is accepted too (the instance
\* form has every control parameter the static form has) and ends as the
\* call of the static form with the same arguments ends.
C30_InstanceAcceptsStaticControls ==
  (/\ Finished
   /\ call.form = "instance"
   /\ call.op \in DOMAIN StaticMethods
   /\ BindsOk(StaticMethods[call.op], call.pos, call.kw)) =>
    /\ ControlNames \cap (DOMAIN StaticMethods[call.op].defaults)
         \subseteq DOMAIN InstanceMethods[call.op].defaults
    /\ Accepted
    /\ \E o \in {Outcome("static", call.op, call.pos, call.kw, heap0)} :
         /\ status = o.status
         /\ err = o.err
         /\ ret = o.ret
         /\ heap = o.heap

====
